---- MODULE Spec2Model ----
(***************************************************************************)
(* Item lifecycle and reconciliation engine of the purchase-route planner  *)
(* (App component, second revision, src/unnamed/part_002:1359-2563).       *)
(*                                                                         *)
(* React state hooks are the variables; every handler is one action that   *)
(* runs to completion (single-threaded event loop).  The only suspending   *)
(* operation is the fetch inside handleUpdateEvent: it is split in the     *)
(* part before the await (UpdateEventStart) and the continuation           *)
(* (UpdateEventResolve / UpdateEventReject), which works on the values the *)
(* callback closed over when it was called.  The save effect, which runs   *)
(* after every render that changed one of the four maps, is part of the    *)
(* action of the handler that changed them; storage is localStorage.       *)
(***************************************************************************)
EXTENDS Integers, Sequences, FiniteSets, TLC

VARIABLES
    eventLists,             \* Record<string, ShoppingItem[]>
    eventMetadata,          \* Record<string, EventMetadata>
    executeModeItems,       \* Record<string, {day1: string[], day2: string[]}>
    dayModes,               \* Record<string, {day1: ViewMode, day2: ViewMode}>
    activeEventName,        \* string | null
    activeTab,              \* 'eventList' | 'day1' | 'day2' | 'import'
    blockSortDirection,     \* 'asc' | 'desc' | null
    itemToEdit,             \* ShoppingItem | null
    itemToDelete,           \* ShoppingItem | null
    selectedItemIds,        \* Set<string>, in insertion order
    updateData,             \* {itemsToDelete, itemsToUpdate, itemsToAdd} | null
    updateEventName,        \* string | null
    showUpdateConfirmation, \* boolean
    showUrlUpdateDialog,    \* boolean
    pendingUpdateEventName, \* string | null
    fetches,                \* suspended handleUpdateEvent calls (their closures)
    nextId,                 \* number of ids crypto.randomUUID() has handed out
    sheet,                  \* rows the external spreadsheet currently holds
    isInitialized,          \* boolean: the load effect has run
    storage,                \* localStorage: one blob per key
    turns                   \* handler runs (event-loop turns) so far

vars == <<eventLists, eventMetadata, executeModeItems, dayModes, activeEventName,
          activeTab, blockSortDirection, itemToEdit, itemToDelete, selectedItemIds,
          updateData, updateEventName, showUpdateConfirmation, showUrlUpdateDialog,
          pendingUpdateEventName, fetches, nextId, sheet, isInitialized, storage, turns>>

----------------------------------------------------------------------------
(* Bounds *)

MaxId == 2          \* ids generated in one behaviour
MaxFetch == 1       \* handleUpdateEvent calls suspended at the same time
MaxSheet == 2       \* rows of one fetched sheet
MaxCur == 2         \* items of a stored collection the reconciler starts from
MaxTurns == 8       \* handler runs in one behaviour of the store specification
MaxCell == 2        \* characters of one exported field

----------------------------------------------------------------------------
(* null, optional values and string-keyed maps *)

Null == "null"
None == <<>>
Some(x) == <<x>>
IsSome(o) == Len(o) > 0
Get(o) == o[1]

Has(map, k) == k \in DOMAIN map
Put(map, k, v) == [x \in (DOMAIN map) \cup {k} |-> IF x = k THEN v ELSE map[x]]
DelNothing(map, k) == map

Del(map, k) == [x \in (DOMAIN map) \ {k} |-> map[x]]
EmptyMap == [x \in {} |-> 0]

Range(s) == {s[i] : i \in 1..Len(s)}
Ids(items) == [i \in 1..Len(items) |-> items[i].id]
IdSet(items) == {items[i].id : i \in 1..Len(items)}

----------------------------------------------------------------------------
(* Types *)

PurchaseStatuses == {"None", "Purchased", "SoldOut", "Absent", "Postpone", "Late"}
ViewModes == {"edit", "execute"}
DayKeys == {"day1", "day2"}

\* eventDate is free text; an item belongs to a day when its eventDate contains
\* the day's label.  "d1" stands for a text containing only the first label,
\* "d2" only the second, "d1d2" both, anything else neither.
IncludesDay(eventDate, day) ==
    \/ day = "day1" /\ eventDate \in {"d1", "d1d2"}
    \/ day = "day2" /\ eventDate \in {"d2", "d1d2"}

\* const currentDay = activeTab === 'day1' ? 'day1' : 'day2'
CurrentDay(tab) == IF tab = "day1" THEN "day1" ELSE "day2"


\* a new item that is born purchased
NewItemPurchased(id, itemData) ==
    [id |-> id, circle |-> itemData.circle, eventDate |-> itemData.eventDate,
     block |-> itemData.block, number |-> itemData.number, title |-> itemData.title,
     price |-> itemData.price, purchaseStatus |-> "Purchased", remarks |-> itemData.remarks]

\* { id: crypto.randomUUID(), ...itemData, purchaseStatus: 'None' }
NewItem(id, itemData) ==
    [id |-> id, circle |-> itemData.circle, eventDate |-> itemData.eventDate,
     block |-> itemData.block, number |-> itemData.number, title |-> itemData.title,
     price |-> itemData.price, purchaseStatus |-> "None", remarks |-> itemData.remarks]

ItemData(item) ==
    [circle |-> item.circle, eventDate |-> item.eventDate, block |-> item.block,
     number |-> item.number, title |-> item.title, price |-> item.price,
     remarks |-> item.remarks]

----------------------------------------------------------------------------
(* utils/itemComparison *)

GetItemKey(item) ==
    <<item.circle, item.eventDate, item.block, item.number, item.title>>

GetItemKeyWithoutTitle(item) ==
    <<item.circle, item.eventDate, item.block, item.number>>

\* Position of a string in the locale-aware, numeric-aware, case-insensitive
\* collation (localeCompare with {numeric: true, sensitivity: 'base'}) of the
\* strings the model uses: "2" sorts before "10", "a" and "A" are equal.
CollationRank(s) ==
    CASE s = "" -> 0
      [] s \in {"1", "A", "a"} -> 1
      [] s \in {"2", "B", "b"} -> 2
      [] s \in {"10", "C", "c"} -> 3
      [] OTHER -> 4

LocaleCompare(a, b) ==
    IF CollationRank(a) < CollationRank(b) THEN -1
    ELSE IF CollationRank(a) > CollationRank(b) THEN 1 ELSE 0

\* ascending (block, number); an item without block goes last
CompareBlockNumber(a, b) ==
    IF a.block = "" /\ b.block = "" THEN LocaleCompare(a.number, b.number)
    ELSE IF a.block = "" THEN 1
    ELSE IF b.block = "" THEN -1
    ELSE IF LocaleCompare(a.block, b.block) # 0 THEN LocaleCompare(a.block, b.block)
    ELSE LocaleCompare(a.number, b.number)

InsertAt(s, i, x) == SubSeq(s, 1, i - 1) \o <<x>> \o SubSeq(s, i, Len(s))

InsertItemSorted(items, newItem) ==
    LET before == {i \in 1..Len(items) : CompareBlockNumber(newItem, items[i]) <= 0}
    IN  IF before = {} THEN Append(items, newItem)
        ELSE InsertAt(items, CHOOSE i \in before : \A j \in before : i <= j, newItem)

----------------------------------------------------------------------------
(* new Map(list.map(item => [key(item), item])): the last item wins a key *)

MapHas(list, Key(_), k) == \E i \in 1..Len(list) : Key(list[i]) = k

MapGet(list, Key(_), k) ==
    list[CHOOSE i \in 1..Len(list) :
            /\ Key(list[i]) = k
            /\ \A j \in (i + 1)..Len(list) : Key(list[j]) # k]

ItemId(item) == item.id

RECURSIVE FlatMap(_, _, _)
FlatMap(list, F(_), i) ==
    IF i > Len(list) THEN <<>> ELSE F(list[i]) \o FlatMap(list, F, i + 1)

----------------------------------------------------------------------------
(* handleUpdateEvent, the diff (part_002:2095-2153) *)

\* the delete filter looking the item up by its full key
ItemsToDeleteByFullKey(currentItems, sheetItems) ==
    SelectSeq(currentItems,
              LAMBDA item : ~MapHas(sheetItems, GetItemKey, GetItemKey(item)))

\* a delete pass that keeps only the items some row repeats unchanged
ItemsToDeleteUnlessIdentical(currentItems, sheetItems) ==
    SelectSeq(currentItems,
              LAMBDA item : \A i \in 1..Len(sheetItems) :
                               \/ GetItemKey(sheetItems[i]) # GetItemKey(item)
                               \/ sheetItems[i].price # item.price
                               \/ sheetItems[i].remarks # item.remarks)

ItemsToDelete(currentItems, sheetItems) ==
    SelectSeq(currentItems,
              LAMBDA item : ~MapHas(sheetItems, GetItemKeyWithoutTitle,
                                    GetItemKeyWithoutTitle(item)))

\* the loose-key branch without the title of the row
RowUpdateKeepTitle(currentItems, sheetItem) ==
    IF MapHas(currentItems, GetItemKey, GetItemKey(sheetItem))
    THEN LET existingWithAll == MapGet(currentItems, GetItemKey, GetItemKey(sheetItem))
         IN  IF existingWithAll.price # sheetItem.price
                \/ existingWithAll.remarks # sheetItem.remarks
             THEN <<[existingWithAll EXCEPT !.price = sheetItem.price,
                                            !.remarks = sheetItem.remarks]>>
             ELSE <<>>
    ELSE IF MapHas(currentItems, GetItemKeyWithoutTitle, GetItemKeyWithoutTitle(sheetItem))
    THEN LET existingWithoutTitle ==
                 MapGet(currentItems, GetItemKeyWithoutTitle,
                        GetItemKeyWithoutTitle(sheetItem))
         IN  <<[existingWithoutTitle EXCEPT !.price = sheetItem.price,
                                            !.remarks = sheetItem.remarks]>>
    ELSE <<>>

\* what one sheet row pushes on itemsToUpdate
RowUpdate(currentItems, sheetItem) ==
    IF MapHas(currentItems, GetItemKey, GetItemKey(sheetItem))
    THEN LET existingWithAll == MapGet(currentItems, GetItemKey, GetItemKey(sheetItem))
         IN  IF existingWithAll.price # sheetItem.price
                \/ existingWithAll.remarks # sheetItem.remarks
             THEN <<[existingWithAll EXCEPT !.price = sheetItem.price,
                                            !.remarks = sheetItem.remarks]>>
             ELSE <<>>
    ELSE IF MapHas(currentItems, GetItemKeyWithoutTitle, GetItemKeyWithoutTitle(sheetItem))
    THEN LET existingWithoutTitle ==
                 MapGet(currentItems, GetItemKeyWithoutTitle,
                        GetItemKeyWithoutTitle(sheetItem))
         IN  <<[existingWithoutTitle EXCEPT !.title = sheetItem.title,
                                            !.price = sheetItem.price,
                                            !.remarks = sheetItem.remarks]>>
    ELSE <<>>

\* the add branch taken whenever the full key is new
RowAddOnFullKeyMiss(currentItems, sheetItem) ==
    IF MapHas(currentItems, GetItemKey, GetItemKey(sheetItem))
    THEN <<>>
    ELSE <<sheetItem>>

\* what one sheet row pushes on itemsToAdd
RowAdd(currentItems, sheetItem) ==
    IF \/ MapHas(currentItems, GetItemKey, GetItemKey(sheetItem))
       \/ MapHas(currentItems, GetItemKeyWithoutTitle, GetItemKeyWithoutTitle(sheetItem))
    THEN <<>>
    ELSE <<sheetItem>>

ComputeUpdateData(currentItems, sheetItems) ==
    [itemsToDelete |-> ItemsToDelete(currentItems, sheetItems),
     itemsToUpdate |-> FlatMap(sheetItems, LAMBDA r : RowUpdate(currentItems, r), 1),
     itemsToAdd    |-> FlatMap(sheetItems, LAMBDA r : RowAdd(currentItems, r), 1)]

----------------------------------------------------------------------------
(* handleConfirmUpdate, the setEventLists updater (part_002:2171-2200) *)

ApplyDeletes(items, itemsToDelete) ==
    SelectSeq(items, LAMBDA item : item.id \notin IdSet(itemsToDelete))

\* an update that puts back an item that is no longer in the list
ApplyUpdatesOrInsert(items, itemsToUpdate) ==
    [i \in 1..Len(items) |->
        IF MapHas(itemsToUpdate, ItemId, items[i].id)
        THEN MapGet(itemsToUpdate, ItemId, items[i].id)
        ELSE items[i]]
    \o SelectSeq(itemsToUpdate, LAMBDA item : item.id \notin IdSet(items))

ApplyUpdates(items, itemsToUpdate) ==
    [i \in 1..Len(items) |->
        IF MapHas(itemsToUpdate, ItemId, items[i].id)
        THEN MapGet(itemsToUpdate, ItemId, items[i].id)
        ELSE items[i]]

\* the new items pushed at the end instead of inserted in order
ApplyAddsAtEnd(items, itemsToAdd, i, firstId) ==
    items \o [k \in 1..Len(itemsToAdd) |-> NewItem(firstId + k - 1, itemsToAdd[k])]

RECURSIVE ApplyAdds(_, _, _, _)
ApplyAdds(items, itemsToAdd, i, firstId) ==
    IF i > Len(itemsToAdd) THEN items
    ELSE ApplyAdds(InsertItemSorted(items, NewItem(firstId + i - 1, itemsToAdd[i])),
                   itemsToAdd, i + 1, firstId)

ConfirmedItems(prevItems, ud, firstId) ==
    ApplyAdds(ApplyUpdates(ApplyDeletes(prevItems, ud.itemsToDelete), ud.itemsToUpdate),
              ud.itemsToAdd, 1, firstId)

\* the active lists kept as they are
RemoveIdsNever(idList, idSet) == idList

\* a filter that drops the last id of the list as well
RemoveIdsAndLast(idList, idSet) ==
    SelectSeq(idList, LAMBDA id : id \notin idSet /\ id # idList[Len(idList)])

RemoveIds(idList, idSet) == SelectSeq(idList, LAMBDA id : id \notin idSet)

----------------------------------------------------------------------------
(* What the render shows (part_002:2232-2233, 2285-2332, 2518-2549) *)

Items ==
    IF activeEventName # Null /\ Has(eventLists, activeEventName)
    THEN eventLists[activeEventName] ELSE <<>>

DayItemsOf(items, day) == SelectSeq(items, LAMBDA item : IncludesDay(item.eventDate, day))

ExecuteIdsOf(event, day) ==
    IF event # Null /\ Has(executeModeItems, event) THEN executeModeItems[event][day] ELSE <<>>

\* a shown mode that is always edit
CurrentModeEdit == "edit"

CurrentMode ==
    IF activeEventName = Null THEN "execute"
    ELSE IF ~Has(dayModes, activeEventName) THEN "edit"
    ELSE IF activeTab = "day1" THEN dayModes[activeEventName].day1
    ELSE dayModes[activeEventName].day2

\* a reading of the flags that takes every day as executed
ModeOfExecute(event, day) == "execute"

\* dayModes[activeEventName]?.[currentDay] || 'edit'
ModeOf(event, day) == IF Has(dayModes, event) THEN dayModes[event][day] ELSE "edit"

\* executeIds.map(id => itemsMap.get(id)).filter(Boolean)
ProjectIds(idList, items) ==
    FlatMap(idList,
            LAMBDA id : IF MapHas(items, ItemId, id) THEN <<MapGet(items, ItemId, id)>> ELSE <<>>,
            1)

ExecuteColumnItemsOf(event, day) ==
    IF event = Null \/ ~Has(eventLists, event) THEN <<>>
    ELSE ProjectIds(ExecuteIdsOf(event, day), eventLists[event])

\* the candidate column without the executeIds filter
CandidateColumnItemsUnfiltered(event, day) ==
    DayItemsOf(IF Has(eventLists, event) THEN eventLists[event] ELSE <<>>, day)

CandidateColumnItemsOf(event, day) ==
    IF event = Null \/ ~Has(eventLists, event) THEN <<>>
    ELSE SelectSeq(DayItemsOf(eventLists[event], day),
                   LAMBDA item : item.id \notin Range(ExecuteIdsOf(event, day)))

ExecuteColumnItems == ExecuteColumnItemsOf(activeEventName, CurrentDay(activeTab))
CandidateColumnItems == CandidateColumnItemsOf(activeEventName, CurrentDay(activeTab))

VisibleItems(sortState) ==
    LET currentDay == CurrentDay(activeTab)
        itemsForTab == DayItemsOf(Items, IF activeTab = "day1" THEN "day1" ELSE "day2")
    IN  IF activeEventName = Null THEN itemsForTab
        ELSE IF ModeOf(activeEventName, currentDay) = "execute"
        THEN LET filtered == SelectSeq(itemsForTab,
                     LAMBDA item : item.id \in Range(ExecuteIdsOf(activeEventName, currentDay)))
             IN  IF sortState = "Manual" THEN filtered
                 ELSE SelectSeq(filtered, LAMBDA item : item.purchaseStatus = sortState)
        ELSE itemsForTab

HasCandidateSelection ==
    /\ activeEventName # Null
    /\ CurrentMode = "edit"
    /\ Len(selectedItemIds) > 0
    /\ \E i \in 1..Len(Items) :
          /\ Items[i].id \in Range(selectedItemIds)
          /\ IncludesDay(Items[i].eventDate, IF activeTab = "day1" THEN "day1" ELSE "day2")
          /\ Items[i].id \notin Range(ExecuteIdsOf(activeEventName, CurrentDay(activeTab)))

MainContentVisible == activeTab \in {"day1", "day2"}

\* The three dialogs are full-screen overlays (UrlUpdateDialog.ts:20): while one
\* is rendered the user reaches only its own buttons.
ModalOpen ==
    \/ IsSome(itemToDelete)
    \/ showUpdateConfirmation /\ IsSome(updateData)
    \/ showUrlUpdateDialog

ListsShown == activeEventName # Null /\ MainContentVisible /\ ~ModalOpen

\* the items of the ShoppingList rendered for a column
ShownItems(column) ==
    IF CurrentMode = "edit"
    THEN IF column = "execute" THEN ExecuteColumnItems ELSE CandidateColumnItems
    ELSE IF column = "execute" THEN VisibleItems("Manual") ELSE <<>>

Columns == {"execute", "candidate"}

----------------------------------------------------------------------------
(* Handlers *)

UiVars == <<activeEventName, activeTab, blockSortDirection, itemToEdit, itemToDelete,
            selectedItemIds>>
UpdateVars == <<updateData, updateEventName, showUpdateConfirmation, showUrlUpdateDialog,
                pendingUpdateEventName, fetches>>
StoreVars == <<eventLists, eventMetadata, executeModeItems, dayModes>>

\* part_002:1463-1519
HandleBulkAdd(eventName, newItemsData, metadata) ==
    LET newItems == [i \in 1..Len(newItemsData) |-> NewItem(nextId + i, newItemsData[i])]
        isNewEvent == ~Has(eventLists, eventName)
        currentItems == IF Has(eventLists, eventName) THEN eventLists[eventName] ELSE <<>>
    IN  /\ nextId + Len(newItemsData) <= MaxId
        /\ nextId' = nextId + Len(newItemsData)
        /\ eventLists' = Put(eventLists, eventName, currentItems \o newItems)
        /\ eventMetadata' =
              IF IsSome(metadata)
              THEN Put(eventMetadata, eventName, [spreadsheetUrl |-> Get(metadata)])
              ELSE eventMetadata
        /\ dayModes' =
              IF isNewEvent THEN Put(dayModes, eventName, [day1 |-> "edit", day2 |-> "edit"])
              ELSE dayModes
        /\ executeModeItems' =
              IF isNewEvent THEN Put(executeModeItems, eventName, [day1 |-> <<>>, day2 |-> <<>>])
              ELSE executeModeItems
        /\ activeEventName' = IF isNewEvent THEN eventName ELSE activeEventName
        /\ activeTab' =
              IF Len(newItems) = 0 THEN activeTab
              ELSE IF \E i \in 1..Len(newItems) : IncludesDay(newItems[i].eventDate, "day1")
              THEN "day1"
              ELSE IF \E i \in 1..Len(newItems) : IncludesDay(newItems[i].eventDate, "day2")
              THEN "day2"
              ELSE "day1"
        /\ UNCHANGED <<blockSortDirection, itemToEdit, itemToDelete, selectedItemIds,
                       UpdateVars, sheet>>

\* the map callback without its id test
UpdatedListAnyId(items, updatedItem) ==
    [i \in 1..Len(items) |-> updatedItem]

\* the setEventLists updater of handleUpdateItem, part_002:1523-1526
UpdatedList(items, updatedItem) ==
    [i \in 1..Len(items) |-> IF items[i].id = updatedItem.id THEN updatedItem ELSE items[i]]

\* part_002:1521-1527
HandleUpdateItem(updatedItem) ==
    /\ activeEventName # Null
    /\ Has(eventLists, activeEventName)
    /\ eventLists' = Put(eventLists, activeEventName,
                         UpdatedList(eventLists[activeEventName], updatedItem))
    /\ UNCHANGED <<eventMetadata, executeModeItems, dayModes, UiVars, UpdateVars,
                   nextId, sheet>>

\* an append that keeps ids already present
AddAllRepeated(list, itemIds, i) == list \o itemIds

\* Array.from(new Set([...list, ...itemIds]))
RECURSIVE AddAll(_, _, _)
AddAll(list, itemIds, i) ==
    IF i > Len(itemIds) THEN list
    ELSE AddAll(IF itemIds[i] \in Range(list) THEN list ELSE Append(list, itemIds[i]),
                itemIds, i + 1)

\* part_002:1598-1620
HandleMoveToExecuteColumn(itemIds) ==
    LET currentDay == CurrentDay(activeTab)
        eventItems == IF Has(executeModeItems, activeEventName)
                      THEN executeModeItems[activeEventName]
                      ELSE [day1 |-> <<>>, day2 |-> <<>>]
    IN  /\ activeEventName # Null
        /\ executeModeItems' =
              Put(executeModeItems, activeEventName,
                  [eventItems EXCEPT ![currentDay] =
                      AddAll(<<>>, eventItems[currentDay] \o itemIds, 1)])
        /\ selectedItemIds' = <<>>
        /\ UNCHANGED <<eventLists, eventMetadata, dayModes, activeEventName, activeTab,
                       blockSortDirection, itemToEdit, itemToDelete, UpdateVars, nextId, sheet>>

\* part_002:1622-1641
HandleRemoveFromExecuteColumn(itemIds) ==
    LET currentDay == CurrentDay(activeTab)
        eventItems == IF Has(executeModeItems, activeEventName)
                      THEN executeModeItems[activeEventName]
                      ELSE [day1 |-> <<>>, day2 |-> <<>>]
    IN  /\ activeEventName # Null
        /\ executeModeItems' =
              Put(executeModeItems, activeEventName,
                  [eventItems EXCEPT ![currentDay] =
                      RemoveIds(eventItems[currentDay], Range(itemIds))])
        /\ selectedItemIds' = <<>>
        /\ UNCHANGED <<eventLists, eventMetadata, dayModes, activeEventName, activeTab,
                       blockSortDirection, itemToEdit, itemToDelete, UpdateVars, nextId, sheet>>

\* a toggle that writes the new mode to both days of the shown event
ToggleBothDays ==
    LET newMode == IF ModeOf(activeEventName, CurrentDay(activeTab)) = "edit"
                   THEN "execute" ELSE "edit"
    IN  /\ activeEventName # Null
        /\ dayModes' = Put(dayModes, activeEventName, [day1 |-> newMode, day2 |-> newMode])
        /\ selectedItemIds' = <<>>
        /\ UNCHANGED <<eventLists, eventMetadata, executeModeItems, activeEventName, activeTab,
                       blockSortDirection, itemToEdit, itemToDelete, UpdateVars, nextId, sheet>>

\* a toggle that can only leave edit mode
ToggleToExecuteOnly ==
    LET currentDay == CurrentDay(activeTab)
        modes == IF Has(dayModes, activeEventName) THEN dayModes[activeEventName]
                 ELSE [day1 |-> "edit", day2 |-> "edit"]
    IN  /\ activeEventName # Null
        /\ dayModes' = Put(dayModes, activeEventName, [modes EXCEPT ![currentDay] = "execute"])
        /\ selectedItemIds' = <<>>
        /\ UNCHANGED <<eventLists, eventMetadata, executeModeItems, activeEventName, activeTab,
                       blockSortDirection, itemToEdit, itemToDelete, UpdateVars, nextId, sheet>>

\* part_002:1643-1659
HandleToggleMode ==
    LET currentDay == CurrentDay(activeTab)
        currentModeValue == ModeOf(activeEventName, currentDay)
        newMode == IF currentModeValue = "edit" THEN "execute" ELSE "edit"
        modes == IF Has(dayModes, activeEventName) THEN dayModes[activeEventName]
                 ELSE [day1 |-> "edit", day2 |-> "edit"]
    IN  /\ activeEventName # Null
        /\ dayModes' = Put(dayModes, activeEventName, [modes EXCEPT ![currentDay] = newMode])
        /\ selectedItemIds' = <<>>
        /\ UNCHANGED <<eventLists, eventMetadata, executeModeItems, activeEventName, activeTab,
                       blockSortDirection, itemToEdit, itemToDelete, UpdateVars, nextId, sheet>>

\* part_002:1661-1672
HandleSelectEvent(eventName) ==
    LET eventItems == IF Has(eventLists, eventName) THEN eventLists[eventName] ELSE <<>>
    IN  /\ activeEventName' = eventName
        /\ selectedItemIds' = <<>>
        /\ activeTab' =
              IF \E i \in 1..Len(eventItems) : IncludesDay(eventItems[i].eventDate, "day1")
              THEN "day1"
              ELSE IF \E i \in 1..Len(eventItems) : IncludesDay(eventItems[i].eventDate, "day2")
              THEN "day2"
              ELSE "day1"
        /\ UNCHANGED <<StoreVars, blockSortDirection, itemToEdit, itemToDelete, UpdateVars,
                       nextId, sheet>>

\* part_002:1674-1699
HandleDeleteEvent(eventName) ==
    /\ eventLists' = Del(eventLists, eventName)
    /\ eventMetadata' = Del(eventMetadata, eventName)
    /\ executeModeItems' = Del(executeModeItems, eventName)
    /\ dayModes' = Del(dayModes, eventName)
    /\ activeEventName' = IF activeEventName = eventName THEN Null ELSE activeEventName
    /\ activeTab' = IF activeEventName = eventName THEN "eventList" ELSE activeTab
    /\ UNCHANGED <<blockSortDirection, itemToEdit, itemToDelete, selectedItemIds,
                   UpdateVars, nextId, sheet>>

\* part_002:1795-1798
HandleEditRequest(item) ==
    /\ itemToEdit' = Some(item)
    /\ activeTab' = "import"
    /\ UNCHANGED <<StoreVars, activeEventName, blockSortDirection, itemToDelete,
                   selectedItemIds, UpdateVars, nextId, sheet>>

\* part_002:1800-1802
HandleDeleteRequest(item) ==
    /\ itemToDelete' = Some(item)
    /\ UNCHANGED <<StoreVars, activeEventName, activeTab, blockSortDirection, itemToEdit,
                   selectedItemIds, UpdateVars, nextId, sheet>>

\* part_002:1804-1829
HandleConfirmDelete ==
    /\ IsSome(itemToDelete)
    /\ activeEventName # Null
    /\ Has(eventLists, activeEventName)
    /\ LET deletedId == Get(itemToDelete).id
       IN  /\ eventLists' =
                 Put(eventLists, activeEventName,
                     SelectSeq(eventLists[activeEventName], LAMBDA item : item.id # deletedId))
           /\ executeModeItems' =
                 IF ~Has(executeModeItems, activeEventName) THEN executeModeItems
                 ELSE Put(executeModeItems, activeEventName,
                          [day1 |-> RemoveIds(executeModeItems[activeEventName].day1, {deletedId}),
                           day2 |-> RemoveIds(executeModeItems[activeEventName].day2, {deletedId})])
    /\ itemToDelete' = None
    /\ UNCHANGED <<eventMetadata, dayModes, activeEventName, activeTab, blockSortDirection,
                   itemToEdit, selectedItemIds, UpdateVars, nextId, sheet>>

\* DeleteConfirmationModal onCancel, part_002:2522
CancelDelete ==
    /\ IsSome(itemToDelete)
    /\ itemToDelete' = None
    /\ UNCHANGED <<StoreVars, activeEventName, activeTab, blockSortDirection, itemToEdit,
                   selectedItemIds, UpdateVars, nextId, sheet>>

\* part_002:1831-1835
DoneEditingTab == IF IsSome(itemToEdit) /\ IncludesDay(Get(itemToEdit).eventDate, "day1")
                  THEN "day1" ELSE "day2"

\* part_002:1837-1849
HandleSelectItem(itemId) ==
    /\ selectedItemIds' =
          IF itemId \in Range(selectedItemIds)
          THEN SelectSeq(selectedItemIds, LAMBDA id : id # itemId)
          ELSE Append(selectedItemIds, itemId)
    /\ blockSortDirection' = Null
    /\ UNCHANGED <<StoreVars, activeEventName, activeTab, itemToEdit, itemToDelete,
                   UpdateVars, nextId, sheet>>

\* part_002:1851-1853
HandleClearSelection ==
    /\ selectedItemIds' = <<>>
    /\ UNCHANGED <<StoreVars, activeEventName, activeTab, blockSortDirection, itemToEdit,
                   itemToDelete, UpdateVars, nextId, sheet>>

----------------------------------------------------------------------------
(* Array helpers, with the 0-based indices of the source *)

\* list.findIndex(p): first index whose element satisfies p, -1 if none
FindIndex(list, P(_)) ==
    IF \E i \in 1..Len(list) : P(list[i])
    THEN (CHOOSE i \in 1..Len(list) : P(list[i]) /\ \A j \in 1..(i - 1) : ~P(list[j])) - 1
    ELSE -1


\* a splice that inserts one place too late
SpliceOneLater(list, start, inserted) ==
    LET at == IF start + 1 > Len(list) THEN Len(list) ELSE start + 1
    IN  SubSeq(list, 1, at) \o inserted \o SubSeq(list, at + 1, Len(list))

\* list.splice(start, 0, ...inserted); a start beyond the end appends
Splice(list, start, inserted) ==
    LET at == IF start > Len(list) THEN Len(list) ELSE start
    IN  SubSeq(list, 1, at) \o inserted \o SubSeq(list, at + 1, Len(list))


\* list.splice(index, 1) that removes nothing
RemoveAtKeeps(list, index) == list

\* list.splice(index, 1)
RemoveAt(list, index) == SubSeq(list, 1, index) \o SubSeq(list, index + 2, Len(list))

\* [...list].sort(cmp): stable
RECURSIVE SortFrom(_, _, _, _)
SortFrom(list, Cmp(_, _), i, sorted) ==
    IF i > Len(list) THEN sorted
    ELSE LET x == list[i]
             at == FindIndex(sorted, LAMBDA y : Cmp(y, x) > 0)
         IN  SortFrom(list, Cmp, i + 1,
                      IF at = -1 THEN Append(sorted, x) ELSE Splice(sorted, at, <<x>>))

Sort(list, Cmp(_, _)) == SortFrom(list, Cmp, 1, <<>>)

\* allItems.map(item => slot(item) ? fill[next++] || item : item)
RECURSIVE Refill(_, _, _, _, _)
Refill(allItems, IsSlot(_), fill, i, next) ==
    IF i > Len(allItems) THEN <<>>
    ELSE IF IsSlot(allItems[i])
    THEN <<IF next <= Len(fill) THEN fill[next] ELSE allItems[i]>>
         \o Refill(allItems, IsSlot, fill, i + 1, next + 1)
    ELSE <<allItems[i]>> \o Refill(allItems, IsSlot, fill, i + 1, next)

----------------------------------------------------------------------------
(* handleMoveItem, part_002:1529-1596.  Key is the id of a list element:   *)
(* the element itself in an active list, item.id in the collection.        *)

\* multi-select branch, part_002:1545-1550 and 1581-1586
MoveBlock(list, Key(_), selected, hoverId) ==
    LET selectedBlock == SelectSeq(list, LAMBDA x : Key(x) \in selected)
        listWithoutSelection == SelectSeq(list, LAMBDA x : Key(x) \notin selected)
        targetIndex == FindIndex(listWithoutSelection, LAMBDA x : Key(x) = hoverId)
    IN  IF targetIndex = -1 THEN list
        ELSE Splice(listWithoutSelection, targetIndex, selectedBlock)

\* single branch, part_002:1558-1564 and 1590-1591
MoveSingle(list, Key(_), dragId, hoverId) ==
    LET dragIndex == FindIndex(list, LAMBDA x : Key(x) = dragId)
        hoverIndex == FindIndex(list, LAMBDA x : Key(x) = hoverId)
    IN  IF dragIndex = -1 \/ hoverIndex = -1 THEN list
        ELSE Splice(RemoveAt(list, dragIndex), hoverIndex, <<list[dragIndex + 1]>>)

Self(x) == x

\* the setExecuteModeItems updater, part_002:1539-1571
MoveInActiveList(dayItems, selected, dragId, hoverId) ==
    IF dragId \in selected THEN MoveBlock(dayItems, Self, selected, hoverId)
    ELSE MoveSingle(dayItems, Self, dragId, hoverId)

\* the setEventLists updater, part_002:1574-1594
MoveInCollection(items, selected, dragId, hoverId) ==
    IF \/ FindIndex(items, LAMBDA x : x.id = dragId) = -1
       \/ FindIndex(items, LAMBDA x : x.id = hoverId) = -1
    THEN items
    ELSE IF dragId \in selected THEN MoveBlock(items, ItemId, selected, hoverId)
    ELSE MoveSingle(items, ItemId, dragId, hoverId)

HandleMoveItem(dragId, hoverId, targetColumn) ==
    LET currentDay == CurrentDay(activeTab)
        mode == ModeOf(activeEventName, currentDay)
        selected == Range(selectedItemIds)
        eventItems == IF Has(executeModeItems, activeEventName)
                      THEN executeModeItems[activeEventName]
                      ELSE [day1 |-> <<>>, day2 |-> <<>>]
        moved == MoveInActiveList(eventItems[currentDay], selected, dragId, hoverId)
        prevItems == IF Has(eventLists, activeEventName) THEN eventLists[activeEventName]
                     ELSE <<>>
        newItems == MoveInCollection(prevItems, selected, dragId, hoverId)
    IN  /\ activeEventName # Null
        /\ blockSortDirection' = Null
        /\ executeModeItems' =
              IF mode = "edit" /\ targetColumn = "execute" /\ moved # eventItems[currentDay]
              THEN Put(executeModeItems, activeEventName,
                       [eventItems EXCEPT ![currentDay] = moved])
              ELSE executeModeItems
        /\ eventLists' =
              IF mode = "execute" /\ newItems # prevItems
              THEN Put(eventLists, activeEventName, newItems)
              ELSE eventLists
        /\ UNCHANGED <<eventMetadata, dayModes, activeEventName, activeTab, itemToEdit,
                       itemToDelete, selectedItemIds, UpdateVars, nextId, sheet>>

----------------------------------------------------------------------------
(* Sorting handlers *)

Negate(direction, comparison) == IF direction = "asc" THEN comparison ELSE 0 - comparison

\* comparator of the block sorts, part_002:1722-1728 and 1763-1769
CompareBlock(a, b, direction) ==
    IF a.block = "" /\ b.block = "" THEN 0
    ELSE IF a.block = "" THEN 1
    ELSE IF b.block = "" THEN -1
    ELSE Negate(direction, LocaleCompare(a.block, b.block))

\* comparator of the bulk sorts, part_002:1882-1885, 1909-1912, 1946-1949
CompareNumber(a, b, direction) == Negate(direction, LocaleCompare(a.number, b.number))

NextDirection == IF blockSortDirection = "asc" THEN "desc" ELSE "asc"

\* the setEventLists updater of handleBlockSortToggle, part_002:1714-1739
BlockSorted(allItems, day, direction) ==
    LET itemsForTab == DayItemsOf(allItems, day)
        sortedItemsForTab == Sort(itemsForTab, LAMBDA a, b : CompareBlock(a, b, direction))
    IN  IF Len(itemsForTab) = 0 THEN allItems
        ELSE Refill(allItems, LAMBDA item : IncludesDay(item.eventDate, day),
                    sortedItemsForTab, 1, 1)

\* part_002:1709-1743
HandleBlockSortToggle ==
    LET prevItems == IF Has(eventLists, activeEventName) THEN eventLists[activeEventName]
                     ELSE <<>>
        newItems == BlockSorted(prevItems, IF activeTab = "day1" THEN "day1" ELSE "day2",
                                NextDirection)
    IN  /\ activeEventName # Null
        /\ eventLists' =
              IF Len(DayItemsOf(prevItems, IF activeTab = "day1" THEN "day1" ELSE "day2")) = 0
              THEN eventLists
              ELSE Put(eventLists, activeEventName, newItems)
        /\ blockSortDirection' = NextDirection
        /\ selectedItemIds' = <<>>
        /\ UNCHANGED <<eventMetadata, executeModeItems, dayModes, activeEventName, activeTab,
                       itemToEdit, itemToDelete, UpdateVars, nextId, sheet>>

\* the setEventLists updater of handleBlockSortToggleCandidate, part_002:1750-1789
CandidateBlockSorted(allItems, day, executeIds, direction) ==
    LET candidateItems ==
            SelectSeq(allItems, LAMBDA item : IncludesDay(item.eventDate, day)
                                              /\ item.id \notin executeIds)
        sortedCandidateItems ==
            Sort(candidateItems, LAMBDA a, b : CompareBlock(a, b, direction))
    IN  IF Len(candidateItems) = 0 THEN allItems
        ELSE Refill(allItems,
                    LAMBDA item : IncludesDay(item.eventDate, day) /\ item.id \notin executeIds,
                    sortedCandidateItems, 1, 1)

\* part_002:1745-1793
HandleBlockSortToggleCandidate ==
    LET day == IF activeTab = "day1" THEN "day1" ELSE "day2"
        prevItems == IF Has(eventLists, activeEventName) THEN eventLists[activeEventName]
                     ELSE <<>>
        executeIds == Range(ExecuteIdsOf(activeEventName, CurrentDay(activeTab)))
        newItems == CandidateBlockSorted(prevItems, day, executeIds, NextDirection)
    IN  /\ activeEventName # Null
        /\ eventLists' =
              IF Has(eventLists, activeEventName)
              THEN Put(eventLists, activeEventName, newItems)
              ELSE eventLists
        /\ blockSortDirection' = NextDirection
        /\ selectedItemIds' = <<>>
        /\ UNCHANGED <<eventMetadata, executeModeItems, dayModes, activeEventName, activeTab,
                       itemToEdit, itemToDelete, UpdateVars, nextId, sheet>>

\* edit mode, selection in the active column only, part_002:1871-1895
BulkSortedActiveList(dayItems, items, selected, direction) ==
    LET selectedItems ==
            Sort(ProjectIds(SelectSeq(dayItems, LAMBDA id : id \in selected), items),
                 LAMBDA a, b : CompareNumber(a, b, direction))
        otherItems == SelectSeq(dayItems, LAMBDA id : id \notin selected)
        firstSelectedIndex == FindIndex(dayItems, LAMBDA id : id \in selected)
    IN  IF firstSelectedIndex = -1 THEN dayItems
        ELSE Splice(otherItems, firstSelectedIndex, Ids(selectedItems))

\* edit mode, selection in the candidate column only, part_002:1898-1937
BulkSortedCandidates(allItems, day, executeIds, selected, direction) ==
    LET IsCandidate(item) == IncludesDay(item.eventDate, day) /\ item.id \notin executeIds
        candidateItems == SelectSeq(allItems, IsCandidate)
        selectedCandidateItems ==
            Sort(SelectSeq(candidateItems, LAMBDA item : item.id \in selected),
                 LAMBDA a, b : CompareNumber(a, b, direction))
        otherCandidateItems == SelectSeq(candidateItems, LAMBDA item : item.id \notin selected)
        firstSelectedIndex == FindIndex(candidateItems, LAMBDA item : item.id \in selected)
    IN  IF firstSelectedIndex = -1 THEN allItems
        ELSE Refill(allItems, IsCandidate,
                    Splice(otherCandidateItems, firstSelectedIndex, selectedCandidateItems),
                    1, 1)

\* execute mode, part_002:1941-1958
BulkSortedCollection(currentItems, selected, direction) ==
    LET selectedItems ==
            Sort(SelectSeq(currentItems, LAMBDA item : item.id \in selected),
                 LAMBDA a, b : CompareNumber(a, b, direction))
        otherItems == SelectSeq(currentItems, LAMBDA item : item.id \notin selected)
        firstSelectedIndex == FindIndex(currentItems, LAMBDA item : item.id \in selected)
    IN  IF firstSelectedIndex = -1 THEN currentItems
        ELSE Splice(otherItems, firstSelectedIndex, selectedItems)

\* part_002:1855-1960
HandleBulkSort(direction) ==
    LET currentDay == CurrentDay(activeTab)
        day == IF activeTab = "day1" THEN "day1" ELSE "day2"
        mode == ModeOf(activeEventName, currentDay)
        selected == Range(selectedItemIds)
        executeIds == Range(ExecuteIdsOf(activeEventName, currentDay))
        isInExecuteColumn ==
            \E i \in 1..Len(Items) : Items[i].id \in selected /\ Items[i].id \in executeIds
        isInCandidateColumn ==
            \E i \in 1..Len(Items) : Items[i].id \in selected /\ Items[i].id \notin executeIds
        eventItems == IF Has(executeModeItems, activeEventName)
                      THEN executeModeItems[activeEventName]
                      ELSE [day1 |-> <<>>, day2 |-> <<>>]
        newDayItems == BulkSortedActiveList(eventItems[currentDay], Items, selected, direction)
        newItems ==
            IF mode = "edit"
            THEN BulkSortedCandidates(Items, day, executeIds, selected, direction)
            ELSE BulkSortedCollection(Items, selected, direction)
    IN  /\ activeEventName # Null
        /\ Len(selectedItemIds) > 0
        /\ blockSortDirection' = Null
        /\ executeModeItems' =
              IF /\ mode = "edit" /\ isInExecuteColumn /\ ~isInCandidateColumn
                 /\ newDayItems # eventItems[currentDay]
              THEN Put(executeModeItems, activeEventName,
                       [eventItems EXCEPT ![currentDay] = newDayItems])
              ELSE executeModeItems
        /\ eventLists' =
              IF /\ newItems # Items
                 /\ \/ mode = "edit" /\ isInCandidateColumn /\ ~isInExecuteColumn
                    \/ mode # "edit"
              THEN Put(eventLists, activeEventName, newItems)
              ELSE eventLists
        /\ UNCHANGED <<eventMetadata, dayModes, activeEventName, activeTab, itemToEdit,
                       itemToDelete, selectedItemIds, UpdateVars, nextId, sheet>>

----------------------------------------------------------------------------
(* handleUpdateEvent (part_002:2017-2163) and the dialogs around it *)

\* url.match(/\/spreadsheets\/d\/([a-zA-Z0-9-_]+)/): "sheet" stands for a locator
\* of that form, "junk" for a non-empty text that is not
UrlMatches(url) == url = "sheet"

\* urlOverride?.url || metadata?.spreadsheetUrl
EffectiveUrl(eventName, urlOverride) ==
    IF IsSome(urlOverride) /\ Get(urlOverride) # "" THEN Get(urlOverride)
    ELSE IF Has(eventMetadata, eventName) THEN eventMetadata[eventName].spreadsheetUrl
    ELSE ""

\* how far the call gets before it suspends or returns
StartOutcome(eventName, urlOverride) ==
    IF EffectiveUrl(eventName, urlOverride) = "" THEN "noUrl"
    ELSE IF ~UrlMatches(EffectiveUrl(eventName, urlOverride)) THEN "invalidUrl"
    ELSE "fetch"

\* a continuation that reads the shown event where it should use its argument
ClosureOfShownEvent(eventName) ==
    [eventName |-> activeEventName,
     currentItems |-> IF Has(eventLists, eventName) THEN eventLists[eventName] ELSE <<>>]

\* what the continuation closes over: eventName and eventLists of the render
\* in which the callback was created
Closure(eventName) ==
    [eventName |-> eventName,
     currentItems |-> IF Has(eventLists, eventName) THEN eventLists[eventName] ELSE <<>>]

\* the call up to the await, part_002:2017-2035
HandleUpdateEvent(eventName, urlOverride) ==
    LET outcome == StartOutcome(eventName, urlOverride)
    IN  /\ outcome = "fetch" => Len(fetches) < MaxFetch
        /\ fetches' = IF outcome = "fetch" THEN Append(fetches, Closure(eventName)) ELSE fetches
        /\ pendingUpdateEventName' =
              IF outcome = "invalidUrl" THEN eventName ELSE pendingUpdateEventName
        /\ showUrlUpdateDialog' = IF outcome = "invalidUrl" THEN TRUE ELSE showUrlUpdateDialog
        /\ UNCHANGED <<StoreVars, UiVars, updateData, updateEventName,
                       showUpdateConfirmation, nextId, sheet>>

RemoveFetch(i) == SubSeq(fetches, 1, i - 1) \o SubSeq(fetches, i + 1, Len(fetches))

\* the continuation applying the deletions at once, without waiting for the
\* confirmation
UpdateEventResolveEager(i, sheetItems) ==
    /\ i \in 1..Len(fetches)
    /\ updateData' = Some(ComputeUpdateData(fetches[i].currentItems, sheetItems))
    /\ updateEventName' = fetches[i].eventName
    /\ showUpdateConfirmation' = TRUE
    /\ fetches' = RemoveFetch(i)
    /\ eventLists' =
          IF Has(eventLists, fetches[i].eventName)
          THEN Put(eventLists, fetches[i].eventName,
                   ApplyDeletes(eventLists[fetches[i].eventName],
                                ItemsToDelete(fetches[i].currentItems, sheetItems)))
          ELSE eventLists
    /\ UNCHANGED <<eventMetadata, executeModeItems, dayModes, UiVars,
                   showUrlUpdateDialog, pendingUpdateEventName, nextId, sheet>>

\* the continuation after a successful fetch, part_002:2040-2157; sheetItems are
\* the rows that passed the mandatory-field check
UpdateEventResolve(i, sheetItems) ==
    /\ i \in 1..Len(fetches)
    /\ updateData' = Some(ComputeUpdateData(fetches[i].currentItems, sheetItems))
    /\ updateEventName' = fetches[i].eventName
    /\ showUpdateConfirmation' = TRUE
    /\ fetches' = RemoveFetch(i)
    /\ UNCHANGED <<StoreVars, UiVars, showUrlUpdateDialog, pendingUpdateEventName,
                   nextId, sheet>>

\* the fetch failed, part_002:2036-2038 and 2158-2162
UpdateEventReject(i) ==
    /\ i \in 1..Len(fetches)
    /\ pendingUpdateEventName' = fetches[i].eventName
    /\ showUrlUpdateDialog' = TRUE
    /\ fetches' = RemoveFetch(i)
    /\ UNCHANGED <<StoreVars, UiVars, updateData, updateEventName,
                   showUpdateConfirmation, nextId, sheet>>

\* part_002:2165-2222
HandleConfirmUpdate ==
    /\ IsSome(updateData)
    /\ updateEventName # Null
    /\ LET ud == Get(updateData)
           eventName == updateEventName
           prevItems == IF Has(eventLists, eventName) THEN eventLists[eventName] ELSE <<>>
           deleteIds == IdSet(ud.itemsToDelete)
       IN  /\ nextId + Len(ud.itemsToAdd) <= MaxId
           /\ nextId' = nextId + Len(ud.itemsToAdd)
           /\ eventLists' = Put(eventLists, eventName, ConfirmedItems(prevItems, ud, nextId + 1))
           /\ executeModeItems' =
                 IF ~Has(executeModeItems, eventName) THEN executeModeItems
                 ELSE Put(executeModeItems, eventName,
                          [day1 |-> RemoveIds(executeModeItems[eventName].day1, deleteIds),
                           day2 |-> RemoveIds(executeModeItems[eventName].day2, deleteIds)])
    /\ showUpdateConfirmation' = FALSE
    /\ updateData' = None
    /\ updateEventName' = Null
    /\ UNCHANGED <<eventMetadata, dayModes, UiVars, showUrlUpdateDialog,
                   pendingUpdateEventName, fetches, sheet>>

\* the onCancel callback without setUpdateData(null)
CancelUpdateKeepsData ==
    /\ showUpdateConfirmation' = FALSE
    /\ updateEventName' = Null
    /\ UNCHANGED <<StoreVars, UiVars, updateData, showUrlUpdateDialog,
                   pendingUpdateEventName, fetches, nextId, sheet>>

\* UpdateConfirmationModal onCancel, part_002:2532-2536
CancelUpdate ==
    /\ showUpdateConfirmation' = FALSE
    /\ updateData' = None
    /\ updateEventName' = Null
    /\ UNCHANGED <<StoreVars, UiVars, showUrlUpdateDialog, pendingUpdateEventName,
                   fetches, nextId, sheet>>

\* part_002:2224-2230; the state setters of one handler are applied in call order
HandleUrlUpdate(newUrl) ==
    LET outcome == StartOutcome(pendingUpdateEventName, Some(newUrl))
    IN  IF pendingUpdateEventName = Null
        THEN /\ showUrlUpdateDialog' = FALSE
             /\ UNCHANGED <<StoreVars, UiVars, updateData, updateEventName,
                            showUpdateConfirmation, pendingUpdateEventName, fetches,
                            nextId, sheet>>
        ELSE /\ outcome = "fetch" => Len(fetches) < MaxFetch
             /\ fetches' = IF outcome = "fetch"
                           THEN Append(fetches, Closure(pendingUpdateEventName))
                           ELSE fetches
             /\ showUrlUpdateDialog' = (outcome = "invalidUrl")
             /\ pendingUpdateEventName' = Null
             /\ UNCHANGED <<StoreVars, UiVars, updateData, updateEventName,
                            showUpdateConfirmation, nextId, sheet>>

\* UrlUpdateDialog onCancel, part_002:2544-2547
CancelUrlUpdate ==
    /\ showUrlUpdateDialog' = FALSE
    /\ pendingUpdateEventName' = Null
    /\ UNCHANGED <<StoreVars, UiVars, updateData, updateEventName,
                   showUpdateConfirmation, fetches, nextId, sheet>>

----------------------------------------------------------------------------
(* Tab bar, part_002:2256-2264 and 2409-2427 *)

ClickEventListTab ==
    /\ activeEventName' = Null
    /\ itemToEdit' = None
    /\ selectedItemIds' = <<>>
    /\ activeTab' = "eventList"
    /\ UNCHANGED <<StoreVars, blockSortDirection, itemToDelete, UpdateVars, nextId, sheet>>

ClickTab(tab) ==
    /\ activeEventName # Null
    /\ itemToEdit' = None
    /\ selectedItemIds' = <<>>
    /\ activeTab' = tab
    /\ UNCHANGED <<StoreVars, activeEventName, blockSortDirection, itemToDelete,
                   UpdateVars, nextId, sheet>>

ClickNewList ==
    /\ activeEventName = Null
    /\ itemToEdit' = None
    /\ activeTab' = "import"
    /\ UNCHANGED <<StoreVars, activeEventName, blockSortDirection, itemToDelete,
                   selectedItemIds, UpdateVars, nextId, sheet>>

----------------------------------------------------------------------------
(* ImportScreen.handleSubmit, src/src/components/ImportScreen.tsx:85-166 *)

\* edit branch (88-107) followed by handleDoneEditing (part_002:1831-1835)
SubmitEdit(fields) ==
    /\ IsSome(itemToEdit)
    /\ ~(fields.circle = "" /\ fields.title = "")
    /\ LET updatedItem == [Get(itemToEdit) EXCEPT
                              !.circle = fields.circle, !.eventDate = fields.eventDate,
                              !.block = fields.block, !.number = fields.number,
                              !.title = fields.title, !.price = fields.price,
                              !.remarks = fields.remarks]
       IN  eventLists' =
              IF activeEventName # Null /\ Has(eventLists, activeEventName)
              THEN Put(eventLists, activeEventName,
                       UpdatedList(eventLists[activeEventName], updatedItem))
              ELSE eventLists
    /\ itemToEdit' = None
    /\ activeTab' = DoneEditingTab
    /\ UNCHANGED <<eventMetadata, executeModeItems, dayModes, activeEventName,
                   blockSortDirection, itemToDelete, selectedItemIds, UpdateVars,
                   nextId, sheet>>

\* new-list branch (109-147): rows without block or number are dropped
SubmitNewList(eventName, rows, metadata) ==
    LET newItems == SelectSeq(rows, LAMBDA r : r.block # "" /\ r.number # "")
    IN  /\ ~IsSome(itemToEdit)
        /\ activeEventName = Null
        /\ eventName # ""
        /\ Len(newItems) > 0
        /\ HandleBulkAdd(eventName, newItems, metadata)

\* single-add branch (148-165)
SubmitSingleAdd(fields) ==
    /\ ~IsSome(itemToEdit)
    /\ activeEventName # Null
    /\ ~(fields.circle = "" /\ fields.title = "")
    /\ HandleBulkAdd(activeEventName, <<fields>>, None)

----------------------------------------------------------------------------
(* Persistence, part_002:1416-1452.  localStorage holds one blob per key: *)
(* none (getItem gives null), a text JSON.parse throws on, the JSON of a   *)
(* value, or the JSON the save effect wrote.  What the save effect wrote   *)
(* is the map in memory at that moment; every action ends with the save    *)
(* effect, so such a blob is held as the kind "current" (see BlobValue)    *)
(* rather than as a second copy of the map.                                *)

StorageKeys == {"eventShoppingLists", "eventMetadata", "executeModeItems", "dayModes"}

AbsentBlob == [kind |-> "absent", value |-> EmptyMap]
UnparsableBlob == [kind |-> "unparsable", value |-> EmptyMap]
JsonBlob(value) == [kind |-> "json", value |-> value]
CurrentBlob == [kind |-> "current", value |-> EmptyMap]

\* the map in memory that belongs to a key, part_002:1423-1434 and 1444-1447
InMemory(key) ==
    CASE key = "eventShoppingLists" -> eventLists
      [] key = "eventMetadata" -> eventMetadata
      [] key = "executeModeItems" -> executeModeItems
      [] key = "dayModes" -> dayModes

\* the value JSON.parse would give for the blob of a key
BlobValue(key) ==
    IF storage[key].kind = "current" THEN InMemory(key) ELSE storage[key].value

\* the four setItem calls, part_002:1444-1447
Saved == [key \in StorageKeys |-> CurrentBlob]

\* the save effect, part_002:1441-1452: it runs after the render that follows
\* a handler, once isInitialized is true
SaveEffect ==
    /\ isInitialized' = isInitialized
    /\ storage' = IF isInitialized THEN Saved ELSE storage

----------------------------------------------------------------------------
(* Inputs of the store specification *)

EventNames == {"e1"}
Urls == {"sheet", "junk"}
Metadatas == {None, Some("sheet")}
StatusChoices == {"None", "Purchased"}
Directions == {"asc", "desc"}

Row(eventDate, number, title) ==
    [circle |-> "X", eventDate |-> eventDate, block |-> "A", number |-> number,
     title |-> title, price |-> 0, remarks |-> ""]

ImportRows == {Row("d1", "2", "T"), Row("d1", "1", "T"), Row("d2", "1", "T")}
EditRows == {Row("d2", "2", "T"), Row("d1", "1", "U")}
SheetRows == {Row("d1", "1", "T"), Row("d1", "1", "U"), Row("d1", "10", "T")}

\* the pasted texts: no row, one row or two rows
ImportPastes ==
    {<<>>} \cup {<<r>> : r \in ImportRows} \cup {<<r, q>> : r, q \in ImportRows}

SeqsUpTo(S, n) == UNION {[1..k -> S] : k \in 0..n}

----------------------------------------------------------------------------
(* The store specification: every operation the rendered screen offers *)

Init ==
    /\ eventLists = EmptyMap
    /\ eventMetadata = EmptyMap
    /\ executeModeItems = EmptyMap
    /\ dayModes = EmptyMap
    /\ activeEventName = Null
    /\ activeTab = "eventList"
    /\ blockSortDirection = Null
    /\ itemToEdit = None
    /\ itemToDelete = None
    /\ selectedItemIds = <<>>
    /\ updateData = None
    /\ updateEventName = Null
    /\ showUpdateConfirmation = FALSE
    /\ showUrlUpdateDialog = FALSE
    /\ pendingUpdateEventName = Null
    /\ fetches = <<>>
    /\ nextId = 0
    /\ sheet = <<>>
    /\ isInitialized = TRUE
    /\ storage = Saved
    /\ turns = 0

\* one more turn of the event loop
Turn == turns < MaxTurns /\ turns' = turns + 1

ImportNewList ==
    /\ Turn
    /\ activeTab = "import" /\ ~ModalOpen
    /\ \E e \in EventNames, rows \in ImportPastes, m \in Metadatas :
          SubmitNewList(e, rows, m)
    /\ SaveEffect

ImportSingleAdd ==
    /\ Turn
    /\ activeTab = "import" /\ ~ModalOpen
    /\ \E fields \in ImportRows : SubmitSingleAdd(fields)
    /\ SaveEffect

ImportEdit ==
    /\ Turn
    /\ activeTab = "import" /\ ~ModalOpen
    /\ \E fields \in EditRows : SubmitEdit(fields)
    /\ SaveEffect

ShownIn(c) == {ShownItems(c)[i] : i \in 1..Len(ShownItems(c))}

ClickStatus ==
    /\ Turn
    /\ ListsShown
    /\ \E c \in Columns : \E item \in ShownIn(c) : \E st \in StatusChoices :
          HandleUpdateItem([item EXCEPT !.purchaseStatus = st])
    /\ SaveEffect

ClickSelect ==
    /\ Turn
    /\ ListsShown
    /\ \E c \in Columns : \E item \in ShownIn(c) : HandleSelectItem(item.id)
    /\ SaveEffect

ClickEdit ==
    /\ Turn
    /\ ListsShown
    /\ \E c \in Columns : \E item \in ShownIn(c) : HandleEditRequest(item)
    /\ SaveEffect

ClickDelete ==
    /\ Turn
    /\ ListsShown
    /\ \E c \in Columns : \E item \in ShownIn(c) : HandleDeleteRequest(item)
    /\ SaveEffect

\* drop on another card of the same column, part_000:410-413
DragWithinColumn ==
    /\ Turn
    /\ ListsShown
    /\ \E c \in Columns : \E drag \in ShownIn(c), hover \in ShownIn(c) :
          drag.id # hover.id /\ HandleMoveItem(drag.id, hover.id, c)
    /\ SaveEffect

\* header button, part_002:2387-2394
ClickMoveSelected ==
    /\ Turn
    /\ ListsShown /\ Len(Items) > 0 /\ Len(selectedItemIds) > 0 /\ HasCandidateSelection
    /\ HandleMoveToExecuteColumn(selectedItemIds)
    /\ SaveEffect

\* drop of a candidate card on the active column, part_000:376-389
DropOnExecuteColumn ==
    /\ Turn
    /\ ListsShown /\ CurrentMode = "edit"
    /\ \E drag \in ShownIn("candidate") :
          HandleMoveToExecuteColumn(IF drag.id \in Range(selectedItemIds)
                                    THEN selectedItemIds ELSE <<drag.id>>)
    /\ SaveEffect

\* drop of an active card on the candidate column, part_000:393-406
DropOnCandidateColumn ==
    /\ Turn
    /\ ListsShown /\ CurrentMode = "edit"
    /\ \E drag \in ShownIn("execute") :
          HandleRemoveFromExecuteColumn(IF drag.id \in Range(selectedItemIds)
                                        THEN selectedItemIds ELSE <<drag.id>>)
    /\ SaveEffect

\* long press on a day tab, part_002:2238-2247
LongPressTab == Turn /\ activeEventName # Null /\ ~ModalOpen /\ HandleToggleMode /\ SaveEffect

ClickBlockSort ==
    /\ Turn
    /\ ListsShown /\ Len(Items) > 0 /\ CurrentMode = "execute"
    /\ HandleBlockSortToggle
    /\ SaveEffect

ClickBlockSortCandidate ==
    /\ Turn
    /\ ListsShown /\ Len(Items) > 0 /\ CurrentMode = "edit"
    /\ HandleBlockSortToggleCandidate
    /\ SaveEffect

ClickBulkSort ==
    /\ Turn
    /\ ListsShown /\ Len(Items) > 0 /\ Len(selectedItemIds) > 0
    /\ \E direction \in Directions : HandleBulkSort(direction)
    /\ SaveEffect

ClickClearSelection ==
    /\ Turn
    /\ ListsShown /\ Len(Items) > 0 /\ Len(selectedItemIds) > 0
    /\ HandleClearSelection
    /\ SaveEffect

SelectEvent ==
    /\ Turn
    /\ activeTab = "eventList" /\ ~ModalOpen
    /\ \E e \in DOMAIN eventLists : HandleSelectEvent(e)
    /\ SaveEffect

DeleteEvent ==
    /\ Turn
    /\ activeTab = "eventList" /\ ~ModalOpen
    /\ \E e \in DOMAIN eventLists : HandleDeleteEvent(e)
    /\ SaveEffect

StartUpdate ==
    /\ Turn
    /\ activeTab = "eventList" /\ ~ModalOpen
    /\ \E e \in DOMAIN eventLists : HandleUpdateEvent(e, None)
    /\ SaveEffect

FetchResolves ==
    /\ Turn
    /\ \E i \in 1..Len(fetches) : \E rows \in SeqsUpTo(SheetRows, MaxSheet) :
          UpdateEventResolve(i, rows)
    /\ SaveEffect

FetchRejects == Turn /\ \E i \in 1..Len(fetches) : UpdateEventReject(i) /\ SaveEffect

ConfirmUpdate == Turn /\ showUpdateConfirmation /\ HandleConfirmUpdate /\ SaveEffect

DismissUpdate == Turn /\ showUpdateConfirmation /\ IsSome(updateData) /\ CancelUpdate /\ SaveEffect

SubmitUrl == Turn /\ showUrlUpdateDialog /\ \E u \in Urls : HandleUrlUpdate(u) /\ SaveEffect

DismissUrl == Turn /\ showUrlUpdateDialog /\ CancelUrlUpdate /\ SaveEffect

ConfirmDelete == Turn /\ HandleConfirmDelete /\ SaveEffect

DismissDelete == Turn /\ CancelDelete /\ SaveEffect

GoEventList == Turn /\ ~ModalOpen /\ ClickEventListTab /\ SaveEffect

GoTab == Turn /\ ~ModalOpen /\ \E tab \in {"day1", "day2", "import"} : ClickTab(tab) /\ SaveEffect

GoNewList == Turn /\ ~ModalOpen /\ ClickNewList /\ SaveEffect

Next ==
    \/ ImportNewList \/ ImportSingleAdd \/ ImportEdit
    \/ ClickStatus \/ ClickSelect \/ ClickEdit \/ ClickDelete
    \/ DragWithinColumn \/ ClickMoveSelected \/ DropOnExecuteColumn \/ DropOnCandidateColumn
    \/ LongPressTab \/ ClickBlockSort \/ ClickBlockSortCandidate \/ ClickBulkSort
    \/ ClickClearSelection
    \/ SelectEvent \/ DeleteEvent \/ StartUpdate \/ FetchResolves \/ FetchRejects
    \/ ConfirmUpdate \/ DismissUpdate \/ SubmitUrl \/ DismissUrl
    \/ ConfirmDelete \/ DismissDelete
    \/ GoEventList \/ GoTab \/ GoNewList

Spec == Init /\ [][Next]_vars

----------------------------------------------------------------------------
(* The reconciler specification: one event whose collection was stored by  *)
(* an earlier session, and a spreadsheet that does not change.  Only the   *)
(* reconciliation runs: fetch, then confirm or cancel, any number of times.*)

ReconEvent == "e1"

CurRows == {[circle |-> "X", eventDate |-> "d1", block |-> "A", number |-> n,
             title |-> t, price |-> 0, remarks |-> ""] :
            n \in {"1", "2"}, t \in {"T", "U"}}

ReconRows == {[circle |-> "X", eventDate |-> "d1", block |-> "A", number |-> n,
               title |-> t, price |-> pr[1], remarks |-> pr[2]] :
              n \in {"1", "2"}, t \in {"T", "U"}, pr \in {<<0, "">>, <<1, "">>, <<0, "r">>}}

\* ids handed out by earlier sessions; they differ from every id of this one
StoredId(i) == 100 + i

\* the stored collections: the rows in any order, at most one item purchased
StoredCollections ==
    UNION {{[i \in 1..k |-> [NewItem(StoredId(i), rows[i]) EXCEPT
                                !.purchaseStatus =
                                    IF i = bought THEN "Purchased" ELSE "None"]] :
              rows \in [1..k -> CurRows], bought \in 0..k} :
           k \in 0..MaxCur}

\* every stored item is valid for day 1 and stands in its active list
InitRecon ==
    /\ \E cur \in StoredCollections :
          /\ eventLists = [e \in {ReconEvent} |-> cur]
          /\ executeModeItems = [e \in {ReconEvent} |-> [day1 |-> Ids(cur), day2 |-> <<>>]]
    /\ eventMetadata = [e \in {ReconEvent} |-> [spreadsheetUrl |-> "sheet"]]
    /\ dayModes = [e \in {ReconEvent} |-> [day1 |-> "edit", day2 |-> "edit"]]
    /\ sheet \in SeqsUpTo(ReconRows, MaxSheet)
    /\ activeEventName = Null
    /\ activeTab = "eventList"
    /\ blockSortDirection = Null
    /\ itemToEdit = None
    /\ itemToDelete = None
    /\ selectedItemIds = <<>>
    /\ updateData = None
    /\ updateEventName = Null
    /\ showUpdateConfirmation = FALSE
    /\ showUrlUpdateDialog = FALSE
    /\ pendingUpdateEventName = Null
    /\ fetches = <<>>
    /\ nextId = 0
    /\ isInitialized = TRUE
    /\ storage = Saved
    /\ turns = 0

\* one reconciliation at a time: the next fetch starts when none is in flight
ReconStart ==
    /\ activeTab = "eventList" /\ ~ModalOpen
    /\ fetches = <<>>
    /\ StartOutcome(ReconEvent, None) = "fetch"
    /\ HandleUpdateEvent(ReconEvent, None)
    /\ UNCHANGED turns /\ SaveEffect

ReconResolve == UpdateEventResolve(1, sheet) /\ UNCHANGED turns /\ SaveEffect

ReconConfirm == showUpdateConfirmation /\ HandleConfirmUpdate /\ UNCHANGED turns /\ SaveEffect

ReconCancel ==
    /\ showUpdateConfirmation /\ IsSome(updateData)
    /\ CancelUpdate
    /\ UNCHANGED turns /\ SaveEffect

NextRecon == ReconStart \/ ReconResolve \/ ReconConfirm \/ ReconCancel

SpecRecon == InitRecon /\ [][NextRecon]_vars

----------------------------------------------------------------------------
(* Properties *)

Count(s, x) == Cardinality({i \in 1..Len(s) : s[i] = x})

DistinctIds(items) ==
    \A i, j \in 1..Len(items) : items[i].id = items[j].id => i = j

\* C1: in every reachable state the ids of the items of each event's
\* collection are pairwise distinct.
IdentityUnique == \A e \in DOMAIN eventLists : DistinctIds(eventLists[e])

\* C1 witness: a collection of two items that has been reordered, the later
\* created item standing first.
IdentityUniqueWitness ==
    \E e \in DOMAIN eventLists :
        /\ Len(eventLists[e]) = 2
        /\ eventLists[e][1].id > eventLists[e][2].id

\* C2: in every reachable state every id of every active list of an event is
\* the id of an item of that event's collection.
NoDanglingActiveId ==
    \A e \in DOMAIN executeModeItems :
        \A day \in DayKeys :
            \A id \in Range(executeModeItems[e][day]) :
                /\ Has(eventLists, e)
                /\ id \in IdSet(eventLists[e])

\* C3: for each event and day the active projection and the candidate
\* projection share no item, and the items of their union that are valid for
\* the day are exactly the items of the collection valid for the day.
PartitionExclusive ==
    \A e \in DOMAIN eventLists :
        \A day \in DayKeys :
            LET active == ExecuteColumnItemsOf(e, day)
                candidates == CandidateColumnItemsOf(e, day)
                both == Range(active) \cup Range(candidates)
            IN  /\ IdSet(active) \cap IdSet(candidates) = {}
                /\ {x \in both : IncludesDay(x.eventDate, day)}
                      = Range(DayItemsOf(eventLists[e], day))

\* C3 witness: a day with an item in its active list and another one among
\* its candidates.
PartitionExclusiveWitness ==
    \E e \in DOMAIN eventLists :
        \E day \in DayKeys :
            /\ Len(ExecuteColumnItemsOf(e, day)) > 0
            /\ Len(CandidateColumnItemsOf(e, day)) > 0

EmptyChangeSet(ud) ==
    /\ ud.itemsToDelete = <<>>
    /\ ud.itemsToUpdate = <<>>
    /\ ud.itemsToAdd = <<>>

\* C4: after a change-set computed from a fetched sheet is confirmed,
\* reconciling the resulting collection against the same sheet gives an empty
\* change-set, whatever rows the sheet holds.
ReconcileIdempotent ==
    [][HandleConfirmUpdate =>
          EmptyChangeSet(ComputeUpdateData(eventLists'[ReconEvent], sheet))]_vars

\* C5: when the event of the pending change-set is no longer in the collection
\* map, confirming changes none of the four stored maps.
ConfirmAfterDeleteIsNoOp ==
    [][(HandleConfirmUpdate /\ ~Has(eventLists, updateEventName)) =>
          UNCHANGED <<eventLists, eventMetadata, executeModeItems, dayModes>>]_vars

\* C6: every item that is in the event's collection right before a confirm and
\* is still in it right after has the purchase status it had right before.
ConfirmPreservesPurchaseStatus ==
    [][HandleConfirmUpdate =>
          \A e \in DOMAIN eventLists \cap DOMAIN eventLists' :
              \A i \in 1..Len(eventLists[e]) :
                  \A j \in 1..Len(eventLists'[e]) :
                      eventLists[e][i].id = eventLists'[e][j].id =>
                          eventLists[e][i].purchaseStatus
                              = eventLists'[e][j].purchaseStatus]_vars

\* the collection and the change-set of a reconciliation awaiting its answer;
\* under SpecRecon the collection is the one the change-set was computed from
ReconCur == eventLists[ReconEvent]
ReconData == Get(updateData)

LooseMatches(row) ==
    {i \in 1..Len(ReconCur) :
        GetItemKeyWithoutTitle(ReconCur[i]) = GetItemKeyWithoutTitle(row)}

FullMatches(row) ==
    {i \in 1..Len(ReconCur) : GetItemKey(ReconCur[i]) = GetItemKey(row)}

\* the row is loose-matched by exactly one current item, under another title
LooseOnly(row) ==
    /\ Cardinality(LooseMatches(row)) = 1
    /\ FullMatches(row) = {}

\* C7: a fetched row whose loose key is that of exactly one current item and
\* whose full key is that of none gives exactly one update, carrying the id and
\* purchase status of that item and the title, price and remarks of the row;
\* the row is not added and the item is not deleted.
KeyTierPrecedence ==
    IsSome(updateData) =>
        \A k \in 1..Len(sheet) :
            LooseOnly(sheet[k]) =>
                \A i \in LooseMatches(sheet[k]) :
                    LET row == sheet[k]
                        item == ReconCur[i]
                        expected == [id |-> item.id,
                                     purchaseStatus |-> item.purchaseStatus,
                                     circle |-> item.circle,
                                     eventDate |-> item.eventDate,
                                     block |-> item.block,
                                     number |-> item.number,
                                     title |-> row.title,
                                     price |-> row.price,
                                     remarks |-> row.remarks]
                    IN  /\ Count(ReconData.itemsToUpdate, expected) = Count(sheet, row)
                        /\ \A u \in Range(ReconData.itemsToUpdate) :
                              (u.id = item.id /\ u.title = row.title
                                 /\ u.price = row.price /\ u.remarks = row.remarks)
                              => u = expected
                        /\ Count(ReconData.itemsToAdd, row) = 0
                        /\ item.id \notin IdSet(ReconData.itemsToDelete)

\* C7 witness: a change-set awaits its answer and a fetched row is matched by
\* the loose key only, by a purchased item.
KeyTierPrecedenceWitness ==
    /\ IsSome(updateData)
    /\ \E k \in 1..Len(sheet) :
          /\ LooseOnly(sheet[k])
          /\ \A i \in LooseMatches(sheet[k]) : ReconCur[i].purchaseStatus = "Purchased"

\* what the full-key branch has to emit for the row and the item: the item
\* with the price and remarks of the row, once per occurrence of the row, when
\* one of the two differs, and nothing otherwise
FullKeyRule(row, item) ==
    LET expected == [item EXCEPT !.price = row.price, !.remarks = row.remarks]
    IN  /\ Count(ReconData.itemsToUpdate, expected) =
              IF row.price # item.price \/ row.remarks # item.remarks
              THEN Count(sheet, row)
              ELSE 0
        /\ Count(ReconData.itemsToAdd, row) = 0

\* C8: for a fetched row and any current item of the same full key, an update
\* of that item is emitted iff the price or the remarks of the row differ from
\* the item's; it keeps id, purchase status and title and replaces
\* price and remarks only; nothing is emitted for the row otherwise.
FullKeyMatchAnyItem ==
    IsSome(updateData) =>
        \A k \in 1..Len(sheet) :
            \A i \in FullMatches(sheet[k]) : FullKeyRule(sheet[k], ReconCur[i])

\* the current items no fetched row matches by loose key
Unmatched ==
    {i \in 1..Len(ReconCur) :
        \A k \in 1..Len(sheet) :
            GetItemKeyWithoutTitle(sheet[k]) # GetItemKeyWithoutTitle(ReconCur[i])}

\* C9: the items to delete are exactly the current items whose loose key is
\* the loose key of no fetched row, each once and in collection order.
DeleteSet ==
    IsSome(updateData) =>
        /\ Len(ReconData.itemsToDelete) = Cardinality(Unmatched)
        /\ \A i \in Unmatched :
              ReconData.itemsToDelete[Cardinality({j \in Unmatched : j <= i})]
                  = ReconCur[i]

\* C9 witness: a change-set awaits its answer; of two current items the second
\* is to be deleted and the first, loose-matched by a row of another title,
\* is not.
DeleteSetWitness ==
    /\ IsSome(updateData)
    /\ Len(ReconCur) = 2
    /\ Unmatched = {2}
    /\ FullMatches(sheet[1]) = {}

DataFields == {"circle", "eventDate", "block", "number", "title", "price", "remarks"}

\* C10: a fetched row is among the items to add iff no current item has its
\* full key and none has its loose key; an item to add has neither an id nor a
\* purchase status.
AddSet ==
    IsSome(updateData) =>
        /\ \A k \in 1..Len(sheet) :
              Count(ReconData.itemsToAdd, sheet[k]) =
                  IF FullMatches(sheet[k]) = {} /\ LooseMatches(sheet[k]) = {}
                  THEN Count(sheet, sheet[k])
                  ELSE 0
        /\ Len(ReconData.itemsToAdd) <= Len(sheet)
        /\ \A a \in Range(ReconData.itemsToAdd) :
              /\ a \in Range(sheet)
              /\ DOMAIN a = DataFields

\* C10 witness: a change-set awaits its answer; one fetched row is to be added
\* and another, matched by loose key only, is not.
AddSetWitness ==
    /\ IsSome(updateData)
    /\ Len(ReconData.itemsToAdd) = 1
    /\ \E k \in 1..Len(sheet) : LooseOnly(sheet[k])

\* a step of handleUpdateEvent: the call, or one of its two continuations
ReconcilerStep ==
    \/ \E e \in EventNames, u \in {None} \cup {Some(x) : x \in Urls} : HandleUpdateEvent(e, u)
    \/ \E u \in Urls : HandleUrlUpdate(u)
    \/ \E i \in 1..Len(fetches) :
          \/ UpdateEventReject(i)
          \/ /\ fetches' = RemoveFetch(i)
             /\ \E rows \in SeqsUpTo(SheetRows, MaxSheet) \cup {sheet} :
                   UpdateEventResolve(i, rows)

\* C11: no step of handleUpdateEvent, from its call to the moment the
\* change-set is shown, changes a collection, an active list, a mode flag or
\* the metadata of an event.
ReconcilePureUntilConfirm ==
    [][\/ UNCHANGED <<eventLists, eventMetadata, executeModeItems, dayModes>>
       \/ ~ReconcilerStep]_vars

\* C11 witness: a change-set that is not empty is shown, nothing of it applied:
\* the collection still holds an item to delete.
ReconcilePureWitness ==
    /\ showUpdateConfirmation /\ IsSome(updateData)
    /\ updateEventName # Null /\ Has(eventLists, updateEventName)
    /\ \E d \in Range(Get(updateData).itemsToDelete) :
          d \in Range(eventLists[updateEventName])

\* C12: dismissing the shown change-set empties the change-set and its event
\* name and changes no collection, active list, mode flag or metadata; and a
\* confirm only ever acts on a change-set that is pending, so that one issued
\* after the dismissal does nothing.
CancelDiscards ==
    [][/\ CancelUpdate =>
            /\ updateData' = None
            /\ updateEventName' = Null
            /\ UNCHANGED <<eventLists, eventMetadata, executeModeItems, dayModes>>
       /\ HandleConfirmUpdate => (IsSome(updateData) /\ updateEventName # Null)
       /\ (updateData = None \/ updateEventName = Null) =>
            ~(ENABLED HandleConfirmUpdate)]_vars

\* C12 witness: a change-set that is not empty is shown and can be dismissed.
CancelDiscardsWitness ==
    /\ showUpdateConfirmation /\ IsSome(updateData)
    /\ ~EmptyChangeSet(Get(updateData))
    /\ turns < MaxTurns

\* the state asking for a corrected locator of the event: nothing stored has
\* changed, no change-set was produced, the dialog is shown for the event
RequestsLocator(eventName) ==
    /\ UNCHANGED <<eventLists, eventMetadata, executeModeItems, dayModes>>
    /\ UNCHANGED <<updateData, updateEventName, showUpdateConfirmation>>
    /\ showUrlUpdateDialog'
    /\ pendingUpdateEventName' = eventName

\* C13: a reconciliation whose locator cannot be parsed or whose fetch fails
\* produces no change-set, changes nothing stored and leaves the dialog asking
\* for a corrected locator of the same event; a locator supplied to the dialog
\* starts the reconciliation of that event once.
SourceUnavailable ==
    [][/\ \A i \in 1..Len(fetches) :
             UpdateEventReject(i) => RequestsLocator(fetches[i].eventName)
       /\ \A e \in EventNames :
             (StartOutcome(e, None) = "invalidUrl" /\ HandleUpdateEvent(e, None))
                => RequestsLocator(e)
       /\ \A u \in Urls :
             (showUrlUpdateDialog /\ pendingUpdateEventName # Null /\ HandleUrlUpdate(u))
                => IF StartOutcome(pendingUpdateEventName, Some(u)) = "invalidUrl"
                   THEN RequestsLocator(pendingUpdateEventName)
                   ELSE /\ fetches' = Append(fetches, Closure(pendingUpdateEventName))
                        /\ UNCHANGED <<eventLists, eventMetadata, executeModeItems,
                                       dayModes, updateData>>]_vars

\* C14: after a confirm no id of an item to delete is in the event's collection
\* or in its day1 or day2 active list; each active list is its former value
\* with those ids filtered out, so that no added item is in an active list.
ConfirmPrunesDeletions ==
    [][HandleConfirmUpdate =>
          LET e == updateEventName
              deleted == {d.id : d \in Range(Get(updateData).itemsToDelete)}
          IN  /\ \A x \in Range(eventLists'[e]) : x.id \notin deleted
              /\ Has(executeModeItems, e) =>
                    \A day \in DayKeys :
                        /\ executeModeItems'[e][day] =
                              SelectSeq(executeModeItems[e][day],
                                        LAMBDA id : id \notin deleted)
                        /\ \A x \in Range(eventLists'[e]) :
                              x.id \in Range(executeModeItems'[e][day]) =>
                                 x.id \in Range(executeModeItems[e][day])
              /\ ~Has(executeModeItems, e) => ~Has(executeModeItems', e)]_vars

\* C14 witness: a confirm has deleted the first of two stored items, which
\* stood in the active list of day 1: the list holds the second one only.
ConfirmPrunesWitness ==
    /\ updateData = None
    /\ Ids(eventLists[ReconEvent]) = <<StoredId(2)>>
    /\ executeModeItems[ReconEvent].day1 = <<StoredId(2)>>

\* the position of the item of the given id in a list of items
PositionOf(items, id) == CHOOSE p \in 1..Len(items) : items[p].id = id

\* C15: a confirm deletes, then updates by id, then inserts: the items that
\* stay keep their relative order, each by itself or replaced by an update of
\* its id; the k-th item to add appears once, with a fresh id and purchase
\* status None, after every item standing in the list when it was inserted
\* that is strictly smaller by (block, number), and right before the first one
\* that is not; the collection grows by the number of items to add.
ConfirmAppliesInOrder ==
    [][(IsSome(updateData) /\ ~IsSome(updateData') /\ HandleConfirmUpdate) =>
          LET e == updateEventName
              ud == Get(updateData)
              old == IF Has(eventLists, e) THEN eventLists[e] ELSE <<>>
              new == eventLists'[e]
              deleted == {d.id : d \in Range(ud.itemsToDelete)}
              oldIds == IdSet(old)
              n == Len(ud.itemsToAdd)
              fresh(k) == nextId + k
              \* the items in the list when the k-th one was inserted
              inList(q, k) == new[q].id \in oldIds
                                 \/ \E j \in 1..(k - 1) : new[q].id = fresh(j)
          IN  /\ SelectSeq(Ids(new), LAMBDA id : id \in oldIds)
                    = SelectSeq(Ids(old), LAMBDA id : id \notin deleted)
              /\ \A p \in 1..Len(new) :
                    new[p].id \in oldIds =>
                       IF \E u \in Range(ud.itemsToUpdate) : u.id = new[p].id
                       THEN new[p] \in Range(ud.itemsToUpdate)
                       ELSE new[p] \in Range(old)
              /\ Len(new) = Cardinality(oldIds \ deleted) + n
              /\ \A k \in 1..n :
                    /\ fresh(k) \notin oldIds
                    /\ Cardinality({p \in 1..Len(new) : new[p].id = fresh(k)}) = 1
                    /\ LET p == PositionOf(new, fresh(k))
                           later == {q \in (p + 1)..Len(new) : inList(q, k)}
                       IN  /\ new[p].purchaseStatus = "None"
                           /\ ItemData(new[p]) = ud.itemsToAdd[k]
                           /\ \A q \in 1..(p - 1) :
                                 inList(q, k) => CompareBlockNumber(new[p], new[q]) > 0
                           /\ \A q \in later :
                                 (\A r \in later : q <= r) =>
                                    CompareBlockNumber(new[p], new[q]) <= 0]_vars

\* C15 witness: a confirm has inserted a new item before a stored one.
ConfirmAppliesWitness ==
    /\ updateData = None
    /\ \E p \in 1..(Len(eventLists[ReconEvent]) - 1) :
          /\ eventLists[ReconEvent][p].id <= nextId
          /\ eventLists[ReconEvent][p + 1].id >= StoredId(1)

----------------------------------------------------------------------------
(* The reordering specification: one event whose collection, day-1 active  *)
(* list, selection and day-1 mode are drawn at the start, then             *)
(* handleMoveItem with any pair of ids, stale ones included.               *)

MaxMove == 4        \* items of the collection that is reordered

MoveEvent == "e1"

MoveRow == [circle |-> "X", eventDate |-> "d1", block |-> "A", number |-> "1",
            title |-> "T", price |-> 0, remarks |-> ""]

\* StoredId(0) is in no collection: a stale drag reference
MoveIds == {StoredId(i) : i \in 0..MaxMove}

MoveCollection(n) == [i \in 1..n |-> NewItem(StoredId(i), MoveRow)]

\* the ids of a set, in the order of the collection
InOrder(idSet) == SelectSeq([i \in 1..(MaxMove + 1) |-> StoredId(i - 1)],
                            LAMBDA id : id \in idSet)

\* the active lists a day can start with: any part of the collection while it
\* is edited, all of it or none of it once it is executed (the handler does
\* not read the active list in execute mode)
MoveActiveLists(n, mode) ==
    LET all == {StoredId(i) : i \in 1..n}
    IN  {InOrder(active) : active \in IF mode = "edit" THEN SUBSET all ELSE {{}, all}}

InitMove ==
    /\ \E n \in 0..MaxMove, mode \in {"edit", "execute"} :
          /\ eventLists = [e \in {MoveEvent} |-> MoveCollection(n)]
          /\ dayModes = [e \in {MoveEvent} |-> [day1 |-> mode, day2 |-> "edit"]]
          /\ \E active \in MoveActiveLists(n, mode) :
                executeModeItems =
                    [e \in {MoveEvent} |-> [day1 |-> active, day2 |-> Ids(MoveCollection(n))]]
          /\ \E selected \in SUBSET {StoredId(i) : i \in 0..n} :
                selectedItemIds = InOrder(selected)
    /\ eventMetadata = [e \in {MoveEvent} |-> [spreadsheetUrl |-> ""]]
    /\ activeEventName = MoveEvent
    /\ activeTab = "day1"
    /\ blockSortDirection = Null
    /\ itemToEdit = None
    /\ itemToDelete = None
    /\ updateData = None
    /\ updateEventName = Null
    /\ showUpdateConfirmation = FALSE
    /\ showUrlUpdateDialog = FALSE
    /\ pendingUpdateEventName = Null
    /\ fetches = <<>>
    /\ nextId = 0
    /\ sheet = <<>>
    /\ isInitialized = TRUE
    /\ storage = Saved
    /\ turns = 0

\* a drop inside the execute column, part_000:410-413
MoveInExecuteColumn ==
    \E dragId, hoverId \in MoveIds :
        HandleMoveItem(dragId, hoverId, "execute") /\ UNCHANGED turns /\ SaveEffect

\* a drop inside the candidate column, part_000:410-413
MoveInCandidateColumn ==
    \E dragId, hoverId \in MoveIds :
        HandleMoveItem(dragId, hoverId, "candidate") /\ UNCHANGED turns /\ SaveEffect

NextMove == MoveInExecuteColumn \/ MoveInCandidateColumn

SpecMove == InitMove /\ [][NextMove]_vars

----------------------------------------------------------------------------
(* handleMoveItem: what a call reorders *)

MoveColumns == {"execute", "candidate"}

\* the call reorders a list: the collection in execute mode, the day's active
\* list for a drop in the execute column in edit mode
Reorders(targetColumn) ==
    \/ ModeOf(activeEventName, CurrentDay(activeTab)) = "execute"
    \/ targetColumn = "execute"

\* the ids of the list the call reorders, before and after it
ListBefore ==
    IF ModeOf(activeEventName, CurrentDay(activeTab)) = "execute"
    THEN Ids(eventLists[activeEventName])
    ELSE executeModeItems[activeEventName][CurrentDay(activeTab)]

ListAfter ==
    IF ModeOf(activeEventName, CurrentDay(activeTab)) = "execute"
    THEN Ids(eventLists'[activeEventName])
    ELSE executeModeItems'[activeEventName][CurrentDay(activeTab)]

SameIdCounts(before, after) ==
    \A id \in MoveIds : Count(after, id) = Count(before, id)

\* handleMoveItem ran, with whatever arguments
MoveItemRan ==
    \E dragId, hoverId \in MoveIds, targetColumn \in MoveColumns :
        HandleMoveItem(dragId, hoverId, targetColumn)

\* C16: handleMoveItem leaves the multiset of ids of the list it reorders
\* unchanged, whatever the list, the dragged id, the target id and the
\* selection are; the lists it does not reorder keep their ids as well.
MoveConservesIds ==
    [][\/ /\ SameIdCounts(ListBefore, ListAfter)
          /\ SameIdCounts(Ids(eventLists[MoveEvent]), Ids(eventLists'[MoveEvent]))
          /\ \A day \in {"day1", "day2"} :
                SameIdCounts(executeModeItems[MoveEvent][day],
                             executeModeItems'[MoveEvent][day])
       \/ ~MoveItemRan]_vars

\* a collection of four items that a move has put in another order
MoveConservesWitness ==
    /\ Len(eventLists[MoveEvent]) = 4
    /\ Ids(eventLists[MoveEvent]) # Ids(MoveCollection(4))
    /\ selectedItemIds # <<>>

\* the selected elements of before stand together in after, in their order in
\* before and directly in front of hoverId; the others keep their order
IsBlockMoved(before, after, selected, hoverId) ==
    LET selectedBlock == SelectSeq(before, LAMBDA id : id \in selected)
        size == Len(selectedBlock)
    IN  /\ Len(after) = Len(before)
        /\ SelectSeq(after, LAMBDA id : id \notin selected)
              = SelectSeq(before, LAMBDA id : id \notin selected)
        /\ \E p \in 1..Len(after) :
              /\ p + size <= Len(after)
              /\ SubSeq(after, p, p + size - 1) = selectedBlock
              /\ after[p + size] = hoverId

\* C17 as stated: in every state, when the selection contains the dragged id
\* and the target is an unselected element of the list, the call of
\* handleMoveItem (which always runs to its end) leaves the selected
\* elements of the list contiguous, in their original relative order, the
\* last of them directly followed by the target, and the unselected elements
\* keep their relative order.
BlockIntegrity ==
    \A dragId, hoverId \in MoveIds, targetColumn \in MoveColumns :
        (/\ dragId \in Range(selectedItemIds)
         /\ hoverId \notin Range(selectedItemIds)
         /\ hoverId \in Range(ListBefore)
         /\ Reorders(targetColumn))
        => ENABLED (/\ HandleMoveItem(dragId, hoverId, targetColumn)
                    /\ IsBlockMoved(ListBefore, ListAfter, Range(selectedItemIds), hoverId))

\* C17 for a dragged id that is an element of the list: the same conclusion
\* when, besides, the dragged id is in the list that is reordered.
BlockIntegrityOfListedDrag ==
    \A dragId, hoverId \in MoveIds, targetColumn \in MoveColumns :
        (/\ dragId \in Range(selectedItemIds)
         /\ dragId \in Range(ListBefore)
         /\ hoverId \notin Range(selectedItemIds)
         /\ hoverId \in Range(ListBefore)
         /\ Reorders(targetColumn))
        => ENABLED (/\ HandleMoveItem(dragId, hoverId, targetColumn)
                    /\ IsBlockMoved(ListBefore, ListAfter, Range(selectedItemIds), hoverId))

\* a three-item selection of the active list, moved in front of the fourth item
BlockIntegrityWitness ==
    /\ dayModes[MoveEvent].day1 = "edit"
    /\ selectedItemIds = <<StoredId(1), StoredId(3), StoredId(4)>>
    /\ executeModeItems[MoveEvent].day1
          = <<StoredId(1), StoredId(3), StoredId(4), StoredId(2)>>

\* dragId stands directly in front of hoverId in after, and the other
\* elements are in their order in before
IsMovedBefore(before, after, dragId, hoverId) ==
    /\ Len(after) = Len(before)
    /\ SelectSeq(after, LAMBDA id : id # dragId) = SelectSeq(before, LAMBDA id : id # dragId)
    /\ \E p \in 1..(Len(after) - 1) : after[p] = dragId /\ after[p + 1] = hoverId

\* dragId stands directly behind hoverId in after, and the other elements
\* are in their order in before
IsMovedBehind(before, after, dragId, hoverId) ==
    /\ Len(after) = Len(before)
    /\ SelectSeq(after, LAMBDA id : id # dragId) = SelectSeq(before, LAMBDA id : id # dragId)
    /\ \E p \in 1..(Len(after) - 1) : after[p] = hoverId /\ after[p + 1] = dragId

\* C18: in every state, when the selection does not contain the dragged id
\* and the dragged id and the target are two elements of the list, the call of
\* handleMoveItem leaves the dragged id directly in front of the target,
\* whether it stood above or below it, and the other elements in their order.
SingleMoveLandsBeforeTarget ==
    \A dragId, hoverId \in MoveIds, targetColumn \in MoveColumns :
        (/\ dragId \notin Range(selectedItemIds)
         /\ dragId # hoverId
         /\ dragId \in Range(ListBefore)
         /\ hoverId \in Range(ListBefore)
         /\ Reorders(targetColumn))
        => ENABLED (/\ HandleMoveItem(dragId, hoverId, targetColumn)
                    /\ IsMovedBefore(ListBefore, ListAfter, dragId, hoverId))

\* what the single branch does: the dragged id takes the index the target
\* had, so that one that stood below the target lands directly in front of
\* it and one that stood above lands directly behind it
SingleMoveLandsAtTargetIndex ==
    \A dragId, hoverId \in MoveIds, targetColumn \in MoveColumns :
        (/\ dragId \notin Range(selectedItemIds)
         /\ dragId # hoverId
         /\ dragId \in Range(ListBefore)
         /\ hoverId \in Range(ListBefore)
         /\ Reorders(targetColumn))
        => ENABLED (/\ HandleMoveItem(dragId, hoverId, targetColumn)
                    /\ \E d, h \in 1..Len(ListBefore) :
                          /\ ListBefore[d] = dragId /\ ListBefore[h] = hoverId
                          /\ IF d > h
                             THEN IsMovedBefore(ListBefore, ListAfter, dragId, hoverId)
                             ELSE IsMovedBehind(ListBefore, ListAfter, dragId, hoverId))

\* C19: in every state, if the target is itself selected in a multi-select
\* move, or the dragged id or the target is not in the list being reordered,
\* the call of handleMoveItem leaves the collection and both active lists
\* exactly as they were.
MoveIsNoOpOnMissingId ==
    \A dragId, hoverId \in MoveIds, targetColumn \in MoveColumns :
        (/\ Reorders(targetColumn)
         /\ \/ dragId \in Range(selectedItemIds) /\ hoverId \in Range(selectedItemIds)
            \/ dragId \notin Range(ListBefore)
            \/ hoverId \notin Range(ListBefore))
        => ENABLED (/\ HandleMoveItem(dragId, hoverId, targetColumn)
                    /\ UNCHANGED <<eventLists, executeModeItems>>)

\* the same for the calls the drop handler of the list can make: the dragged
\* id is an element of the list it is dragged in
MoveIsNoOpOnMissingTarget ==
    \A dragId, hoverId \in MoveIds, targetColumn \in MoveColumns :
        (/\ Reorders(targetColumn)
         /\ dragId \in Range(ListBefore)
         /\ \/ dragId \in Range(selectedItemIds) /\ hoverId \in Range(selectedItemIds)
            \/ hoverId \notin Range(ListBefore))
        => ENABLED (/\ HandleMoveItem(dragId, hoverId, targetColumn)
                    /\ UNCHANGED <<eventLists, executeModeItems>>)

----------------------------------------------------------------------------
(* handleBulkAdd *)

\* C20: handleBulkAdd creates an absent event with exactly the given items in
\* the given order, empty day-1 and day-2 active lists and mode edit for both
\* days; to an existing event it appends the items after the existing ones,
\* which keep their order and content, and leaves the active lists and the
\* mode flags as they were; every added item has purchaseStatus None and as
\* many items are added as were given.  (A call that leaves eventLists as it
\* was gave nothing to an existing event; the steps looked at are those that
\* change eventLists.)
BulkAddCreatesOrAppends ==
    [][\/ eventLists' = eventLists
       \/ \A eventName \in EventNames, newItemsData \in ImportPastes, metadata \in Metadatas :
              HandleBulkAdd(eventName, newItemsData, metadata) =>
                 LET existing == IF Has(eventLists, eventName) THEN eventLists[eventName]
                                 ELSE <<>>
                     items == eventLists'[eventName]
                 IN  /\ Len(items) = Len(existing) + Len(newItemsData)
                     /\ SubSeq(items, 1, Len(existing)) = existing
                     /\ \A i \in 1..Len(newItemsData) :
                           /\ ItemData(items[Len(existing) + i]) = newItemsData[i]
                           /\ items[Len(existing) + i].purchaseStatus = "None"
                     /\ IF Has(eventLists, eventName)
                        THEN UNCHANGED <<executeModeItems, dayModes>>
                        ELSE /\ executeModeItems'[eventName] = [day1 |-> <<>>, day2 |-> <<>>]
                             /\ dayModes'[eventName] = [day1 |-> "edit", day2 |-> "edit"]]_vars

\* an event that handleBulkAdd gave two items, the first of them standing on
\* the day-1 active list
BulkAddWitness ==
    /\ Has(eventLists, "e1")
    /\ Ids(eventLists["e1"]) = <<1, 2>>
    /\ executeModeItems["e1"].day1 = <<1>>
    /\ nextId = 2

----------------------------------------------------------------------------
(* The item and event operations specification: two stored events, one of  *)
(* them shown on a day tab, and the handlers that edit one item, one       *)
(* active list, one mode flag or one event, with every argument they can   *)
(* be given, ids of no item included.                                      *)

MaxStore == 2       \* items of the collection of the first stored event

StoreEvents == {"e1", "e2"}

\* the stored items: ids 101.. in the first event, 201 in the second
StoreCollection(event, n) ==
    IF event = "e1" THEN [i \in 1..n |-> NewItem(StoredId(i), MoveRow)]
    ELSE <<NewItem(StoredId(101), MoveRow)>>

StoreIdsOf(event, n) == {StoreCollection(event, n)[i].id : i \in 1..Len(StoreCollection(event, n))}

\* ids a handler can be given: those of the first event's items, one of the
\* second event's item and one of no item
StoreIds == {StoredId(i) : i \in 0..MaxStore} \cup {StoredId(101)}

InitStore ==
    /\ \E n \in 0..MaxStore :
          /\ eventLists = [e \in StoreEvents |-> StoreCollection(e, n)]
          \* the second day takes every item, the first day any part of them
          /\ \E active1 \in SUBSET StoreIdsOf("e1", n) :
                executeModeItems =
                    [e \in StoreEvents |->
                        IF e = "e1"
                        THEN [day1 |-> InOrder(active1),
                              day2 |-> InOrder(StoreIdsOf("e1", n))]
                        ELSE [day1 |-> <<StoredId(101)>>, day2 |-> <<>>]]
    /\ eventMetadata = [e \in StoreEvents |-> [spreadsheetUrl |-> "sheet"]]
    /\ activeEventName = "e1"
    /\ activeTab \in DayKeys
    \* the shown day is being edited, the other day is in either mode
    /\ \E modes \in [DayKeys -> ViewModes] :
          /\ modes[CurrentDay(activeTab)] = "edit"
          /\ dayModes = [e \in StoreEvents |->
                            IF e = "e1" THEN [day1 |-> modes["day1"], day2 |-> modes["day2"]]
                            ELSE [day1 |-> "execute", day2 |-> "edit"]]
    /\ blockSortDirection = Null
    /\ itemToEdit = None
    /\ itemToDelete = None
    /\ selectedItemIds = <<>>
    /\ updateData = None
    /\ updateEventName = Null
    /\ showUpdateConfirmation = FALSE
    /\ showUrlUpdateDialog = FALSE
    /\ pendingUpdateEventName = Null
    /\ fetches = <<>>
    /\ nextId = 0
    /\ sheet = <<>>
    /\ isInitialized = TRUE
    /\ storage = Saved
    /\ turns = 0

\* the items of the shown event
StoreShown ==
    IF activeEventName # Null /\ Has(eventLists, activeEventName)
    THEN Range(eventLists[activeEventName]) ELSE {}

\* an item whose id is in no collection
StaleItem == [NewItem(StoredId(0), MoveRow) EXCEPT !.purchaseStatus = "Purchased"]

\* the items the status buttons of the first card give handleUpdateItem
StoreUpdatedItems ==
    {[item EXCEPT !.purchaseStatus = st] :
        item \in {x \in StoreShown : x.id = StoredId(1)}, st \in StatusChoices}

\* the id lists the columns give their handlers: one card or two selected ones
StoreIdLists ==
    UNION {[1..k -> {item.id : item \in StoreShown}] : k \in 1..2}

StoreUpdateItem ==
    /\ \E updatedItem \in StoreUpdatedItems : HandleUpdateItem(updatedItem)
    /\ UNCHANGED turns /\ SaveEffect

StoreDeleteRequest ==
    /\ activeEventName # Null /\ ~IsSome(itemToDelete)
    /\ \E item \in StoreShown : HandleDeleteRequest(item)
    /\ UNCHANGED turns /\ SaveEffect

StoreConfirmDelete == HandleConfirmDelete /\ UNCHANGED turns /\ SaveEffect

StoreToggleMode ==
    /\ ~IsSome(itemToDelete)
    /\ HandleToggleMode
    /\ UNCHANGED turns /\ SaveEffect

StoreDeleteEvent ==
    /\ ~IsSome(itemToDelete)
    /\ \E e \in StoreEvents : HandleDeleteEvent(e)
    /\ UNCHANGED turns /\ SaveEffect

StoreAddToActive ==
    /\ ~IsSome(itemToDelete)
    /\ \E itemIds \in StoreIdLists : HandleMoveToExecuteColumn(itemIds)
    /\ UNCHANGED turns /\ SaveEffect

StoreRemoveFromActive ==
    /\ ~IsSome(itemToDelete)
    /\ \E itemIds \in StoreIdLists : HandleRemoveFromExecuteColumn(itemIds)
    /\ UNCHANGED turns /\ SaveEffect

NextStore ==
    \/ StoreUpdateItem \/ StoreDeleteRequest \/ StoreConfirmDelete \/ StoreToggleMode
    \/ StoreDeleteEvent \/ StoreAddToActive \/ StoreRemoveFromActive

SpecStore == InitStore /\ [][NextStore]_vars

----------------------------------------------------------------------------
(* Item and event operations: what one call does *)

\* the items handleUpdateItem is tried with: every shown item with any status
\* and title, and an item of no collection
UpdateArgs ==
    {[item EXCEPT !.purchaseStatus = st, !.title = t] :
        item \in StoreShown \cup {StaleItem}, st \in StatusChoices, t \in {"T", "U"}}

\* the entries of a map other than the one of an event are as they were
OthersUnchanged(before, after, eventName) ==
    /\ DOMAIN after \ {eventName} = DOMAIN before \ {eventName}
    /\ \A e \in DOMAIN before \ {eventName} : after[e] = before[e]

\* C21: in every state with a shown event, the call of handleUpdateItem puts
\* the given item in the place of the item with its id and changes no other
\* item, no order, no active list, no mode flag and no other event; given an
\* item whose id no item has, it leaves the whole state as it was.
UpdateItemReplacesById ==
    \A updatedItem \in UpdateArgs :
        (activeEventName # Null /\ Has(eventLists, activeEventName)) =>
        ENABLED (/\ HandleUpdateItem(updatedItem)
                 /\ LET old == eventLists[activeEventName]
                        new == eventLists'[activeEventName]
                    IN  /\ Len(new) = Len(old)
                        /\ \A i \in 1..Len(old) :
                              new[i] = IF old[i].id = updatedItem.id THEN updatedItem
                                       ELSE old[i]
                 /\ OthersUnchanged(eventLists, eventLists', activeEventName)
                 /\ UNCHANGED <<eventMetadata, executeModeItems, dayModes>>
                 /\ (\A i \in 1..Len(eventLists[activeEventName]) :
                        eventLists[activeEventName][i].id # updatedItem.id)
                    => UNCHANGED <<StoreVars, UiVars, UpdateVars>>)

\* the first of two items was given another status, the second was not
UpdateItemWitness ==
    /\ Has(eventLists, "e1")
    /\ Len(eventLists["e1"]) = 2
    /\ eventLists["e1"][1].purchaseStatus = "Purchased"
    /\ eventLists["e1"][2] = NewItem(StoredId(2), MoveRow)

\* C22: in every state with a deletion asked for in a shown event, the call of
\* handleConfirmDelete takes the item with the given id out of the event's
\* collection and the id out of its day-1 and day-2 active lists, all in that
\* one step; the items and the active ids that remain keep their order, and
\* the other event keeps its collection and its active lists.
ConfirmDeleteRemovesEverywhere ==
    (IsSome(itemToDelete) /\ activeEventName # Null /\ Has(eventLists, activeEventName)) =>
    ENABLED (/\ HandleConfirmDelete
             /\ LET deletedId == Get(itemToDelete).id
                IN  /\ eventLists'[activeEventName]
                          = SelectSeq(eventLists[activeEventName],
                                      LAMBDA item : item.id # deletedId)
                    /\ \A day \in DayKeys :
                          executeModeItems'[activeEventName][day]
                             = SelectSeq(executeModeItems[activeEventName][day],
                                         LAMBDA id : id # deletedId)
             /\ OthersUnchanged(eventLists, eventLists', activeEventName)
             /\ OthersUnchanged(executeModeItems, executeModeItems', activeEventName))

\* the first of two items was deleted: the second is what is left of the
\* collection and of the day-1 active list
ConfirmDeleteWitness ==
    /\ Has(eventLists, "e1")
    /\ Ids(eventLists["e1"]) = <<StoredId(2)>>
    /\ executeModeItems["e1"].day1 = <<StoredId(2)>>
    /\ itemToDelete = None

Flip(mode) == IF mode = "edit" THEN "execute" ELSE "edit"

OtherDay(day) == IF day = "day1" THEN "day2" ELSE "day1"

\* C23: in every state with a shown event, the call of handleToggleMode flips
\* the mode flag of the shown day of that event and leaves the flag of the
\* other day, the flags of every other event, all collections and all active
\* lists as they were; it leaves the shown event and day as they were and the
\* flip of a flipped flag is the flag, so a second toggle restores the first.
ToggleFlipsOneFlag ==
    activeEventName # Null =>
    LET day == CurrentDay(activeTab)
    IN  /\ Flip(Flip(ModeOf(activeEventName, day))) = ModeOf(activeEventName, day)
        /\ ENABLED (/\ HandleToggleMode
                    /\ dayModes'[activeEventName][day] = Flip(ModeOf(activeEventName, day))
                    /\ dayModes'[activeEventName][OtherDay(day)]
                          = ModeOf(activeEventName, OtherDay(day))
                    /\ OthersUnchanged(dayModes, dayModes', activeEventName)
                    /\ UNCHANGED <<eventLists, executeModeItems, eventMetadata,
                                   activeEventName, activeTab>>)

\* the shown day of the first event was put in execute mode while the other
\* day is in execute mode
ToggleWitness ==
    /\ Has(dayModes, "e1") /\ Has(dayModes, "e2")
    /\ dayModes["e1"] = [day1 |-> "execute", day2 |-> "execute"]

\* C24: for every existing event and each day the mode flag is edit or
\* execute; while an event is shown on a day tab and no dialog is open, the
\* long press on the tab is enabled in either mode and takes the shown mode
\* from edit to execute and from execute to edit, so neither mode is terminal.
ModeIsEditOrExecuteAndToggles ==
    /\ \A event \in DOMAIN dayModes : \A day \in DayKeys : dayModes[event][day] \in ViewModes
    /\ \A event \in DOMAIN eventLists : \A day \in DayKeys : ModeOf(event, day) \in ViewModes
    /\ (activeEventName # Null /\ activeTab \in DayKeys /\ ~IsSome(itemToDelete)) =>
          /\ CurrentMode \in ViewModes
          /\ \A mode \in ViewModes :
                CurrentMode = mode =>
                   ENABLED (StoreToggleMode /\ CurrentMode' = Flip(mode)
                                            /\ CurrentMode' # mode)

\* the second day of the first event, shown, is in execute mode while the
\* first day is being edited
ModeMachineWitness ==
    /\ activeEventName = "e1" /\ activeTab = "day2"
    /\ Has(dayModes, "e1")
    /\ dayModes["e1"] = [day1 |-> "edit", day2 |-> "execute"]
    /\ CurrentMode = "execute"

\* C25: in every state, the call of handleDeleteEvent for an existing event
\* removes the event's entry from the collections, the metadata, the active
\* lists and the mode flags in that one step and leaves the entries of every
\* other event in the four maps as they were.
DeleteEventRemovesFromAllMaps ==
    \A eventName \in DOMAIN eventLists :
        ENABLED (/\ HandleDeleteEvent(eventName)
                 /\ ~Has(eventLists', eventName) /\ ~Has(eventMetadata', eventName)
                 /\ ~Has(executeModeItems', eventName) /\ ~Has(dayModes', eventName)
                 /\ OthersUnchanged(eventLists, eventLists', eventName)
                 /\ OthersUnchanged(eventMetadata, eventMetadata', eventName)
                 /\ OthersUnchanged(executeModeItems, executeModeItems', eventName)
                 /\ OthersUnchanged(dayModes, dayModes', eventName))

\* the second event was deleted and the first one, still shown, has its
\* entries in all four maps
DeleteEventWitness ==
    /\ activeEventName = "e1"
    /\ DOMAIN eventLists = {"e1"} /\ DOMAIN eventMetadata = {"e1"}
    /\ DOMAIN executeModeItems = {"e1"} /\ DOMAIN dayModes = {"e1"}
    /\ Len(eventLists["e1"]) = MaxStore

\* lists of ids a caller may hand to the handlers of the active lists: ids of
\* the shown collection and an id of no item, with repetitions
ActiveArgs ==
    LET ids == {item.id : item \in StoreShown} \cup {StoredId(0)}
    IN  UNION {[1..k -> ids] : k \in 1..2}

NoDuplicates(list) == \A i, j \in 1..Len(list) : list[i] = list[j] => i = j

\* the given ids that are not in the list, each at its first place
FirstNew(list, itemIds) ==
    LET keep == {i \in 1..Len(itemIds) :
                    /\ itemIds[i] \notin Range(list)
                    /\ \A j \in 1..(i - 1) : itemIds[j] # itemIds[i]}
    IN  [k \in 1..Cardinality(keep) |->
            itemIds[CHOOSE i \in keep : Cardinality({j \in keep : j <= i}) = k]]

\* C26: no active list ever holds an id twice, and in every state with a
\* shown event the call of handleMoveToExecuteColumn turns the active list of
\* the shown day into the previous list followed by the given ids that were
\* not in it, each once, in the order given, and leaves the other day's list
\* as it was.
AddToActiveAppendsNewIds ==
    /\ \A event \in DOMAIN executeModeItems : \A d \in DayKeys :
          NoDuplicates(executeModeItems[event][d])
    /\ (activeEventName # Null /\ Has(executeModeItems, activeEventName)) =>
          LET day == CurrentDay(activeTab)
              list == executeModeItems[activeEventName][day]
          IN  \A itemIds \in ActiveArgs :
                 ENABLED (/\ HandleMoveToExecuteColumn(itemIds)
                          /\ executeModeItems'[activeEventName][day]
                                = list \o FirstNew(list, itemIds)
                          /\ NoDuplicates(executeModeItems'[activeEventName][day])
                          /\ executeModeItems'[activeEventName][OtherDay(day)]
                                = executeModeItems[activeEventName][OtherDay(day)])

\* the first item of the collection was added behind the second one, which
\* was active before
AddToActiveWitness ==
    /\ activeEventName = "e1" /\ activeTab = "day1"
    /\ Has(executeModeItems, "e1")
    /\ executeModeItems["e1"].day1 = <<StoredId(2), StoredId(1)>>
    /\ executeModeItems["e1"].day2 = <<StoredId(1), StoredId(2)>>

\* C27: in every state with a shown event, the call of
\* handleRemoveFromExecuteColumn turns the active list of the shown day into
\* the previous list without the given ids, the others in their previous
\* order, whether or not the given ids were in the list, and leaves the
\* collections and the other day's list as they were.
RemoveFromActiveFilters ==
    (activeEventName # Null /\ Has(executeModeItems, activeEventName)) =>
       LET day == CurrentDay(activeTab)
           list == executeModeItems[activeEventName][day]
       IN  \A itemIds \in ActiveArgs :
              ENABLED (/\ HandleRemoveFromExecuteColumn(itemIds)
                       /\ executeModeItems'[activeEventName][day]
                             = SelectSeq(list, LAMBDA id : \A i \in 1..Len(itemIds) :
                                                              itemIds[i] # id)
                       /\ executeModeItems'[activeEventName][OtherDay(day)]
                             = executeModeItems[activeEventName][OtherDay(day)]
                       /\ OthersUnchanged(executeModeItems, executeModeItems',
                                          activeEventName)
                       /\ UNCHANGED eventLists)

\* every item of the second day was taken out of its active list while the
\* collection is whole
RemoveFromActiveWitness ==
    /\ activeEventName = "e1" /\ activeTab = "day2"
    /\ Has(executeModeItems, "e1") /\ Has(eventLists, "e1")
    /\ Len(eventLists["e1"]) = MaxStore
    /\ executeModeItems["e1"].day2 = <<>>
    /\ executeModeItems["e1"].day1 = <<StoredId(1)>>

MembershipFixedInExecuteMode ==
    [][\/ UNCHANGED executeModeItems
       \/ \A event \in DOMAIN executeModeItems \cap DOMAIN executeModeItems' :
             \A day \in DayKeys :
                (/\ ModeOf(event, day) = "execute"
                 /\ Range(executeModeItems'[event][day]) # Range(executeModeItems[event][day]))
                => /\ HandleConfirmDelete \/ HandleConfirmUpdate
                   /\ Range(executeModeItems'[event][day])
                         \subseteq Range(executeModeItems[event][day])]_vars

\* a day is shown in execute mode with an item in its active list, an item
\* of the day outside it and a selection
MembershipWitness ==
    /\ activeEventName # Null /\ activeTab \in DayKeys
    /\ Has(dayModes, activeEventName) /\ Has(executeModeItems, activeEventName)
    /\ CurrentMode = "execute"
    /\ Len(executeModeItems[activeEventName][CurrentDay(activeTab)]) > 0
    /\ Len(selectedItemIds) > 0
    /\ \E i \in 1..Len(Items) :
          Items[i].id \notin Range(executeModeItems[activeEventName][CurrentDay(activeTab)])

----------------------------------------------------------------------------
(* Startup: the load effect reads the stored snapshot, the save effect of the
   next render writes the in-memory maps back *)

\* the order in which the load effect parses the four blobs, part_002:1423-1434
LoadOrder == <<"eventShoppingLists", "eventMetadata", "executeModeItems", "dayModes">>

\* the maps of a snapshot saved by an earlier run
StoredSnapshot(key) ==
    CASE key = "eventShoppingLists" -> [e \in StoreEvents |-> StoreCollection(e, 1)]
      [] key = "eventMetadata" -> [e \in StoreEvents |-> [spreadsheetUrl |-> "sheet"]]
      [] key = "executeModeItems" ->
            [e \in StoreEvents |-> [day1 |-> Ids(StoreCollection(e, 1)), day2 |-> <<>>]]
      [] key = "dayModes" -> [e \in StoreEvents |-> [day1 |-> "execute", day2 |-> "edit"]]

\* what localStorage can hold under a key when the page is opened
StoredBlobs(key) ==
    {AbsentBlob, UnparsableBlob, JsonBlob(EmptyMap), JsonBlob(StoredSnapshot(key))}

InitLoad ==
    /\ eventLists = EmptyMap
    /\ eventMetadata = EmptyMap
    /\ executeModeItems = EmptyMap
    /\ dayModes = EmptyMap
    /\ activeEventName = Null
    /\ activeTab = "eventList"
    /\ blockSortDirection = Null
    /\ itemToEdit = None
    /\ itemToDelete = None
    /\ selectedItemIds = <<>>
    /\ updateData = None
    /\ updateEventName = Null
    /\ showUpdateConfirmation = FALSE
    /\ showUrlUpdateDialog = FALSE
    /\ pendingUpdateEventName = Null
    /\ fetches = <<>>
    /\ nextId = 0
    /\ sheet = <<>>
    /\ isInitialized = FALSE
    /\ \E lists \in StoredBlobs("eventShoppingLists"), metadata \in StoredBlobs("eventMetadata"),
          items \in StoredBlobs("executeModeItems"), modes \in StoredBlobs("dayModes") :
          storage = [key \in StorageKeys |->
                        CASE key = "eventShoppingLists" -> lists
                          [] key = "eventMetadata" -> metadata
                          [] key = "executeModeItems" -> items
                          [] key = "dayModes" -> modes]
    /\ turns = 0

\* the place in LoadOrder of the first blob JSON.parse throws on, 5 if none
FirstThrow ==
    IF \E i \in 1..4 : storage[LoadOrder[i]].kind = "unparsable"
    THEN CHOOSE i \in 1..4 :
            /\ storage[LoadOrder[i]].kind = "unparsable"
            /\ \A j \in 1..(i - 1) : storage[LoadOrder[j]].kind # "unparsable"
    ELSE 5

\* the state a map has after the load effect: the parsed blob if the blob is
\* there and the effect reached it, the state before otherwise
LoadedOr(i, before) ==
    IF i < FirstThrow /\ storage[LoadOrder[i]].kind = "json"
    THEN storage[LoadOrder[i]].value
    ELSE before

\* part_002:1416-1439 and, in the render that follows, 1441-1452
LoadEffect ==
    /\ ~isInitialized
    /\ eventLists' = LoadedOr(1, eventLists)
    /\ eventMetadata' = LoadedOr(2, eventMetadata)
    /\ executeModeItems' = LoadedOr(3, executeModeItems)
    /\ dayModes' = LoadedOr(4, dayModes)
    /\ isInitialized' = TRUE
    /\ storage' = Saved
    /\ UNCHANGED <<UiVars, UpdateVars, nextId, sheet, turns>>

LoadSelectEvent ==
    /\ isInitialized
    /\ \E e \in DOMAIN eventLists : HandleSelectEvent(e)
    /\ UNCHANGED turns /\ SaveEffect

LoadToggleMode == isInitialized /\ HandleToggleMode /\ UNCHANGED turns /\ SaveEffect

LoadDeleteEvent ==
    /\ isInitialized
    /\ \E e \in DOMAIN eventLists : HandleDeleteEvent(e)
    /\ UNCHANGED turns /\ SaveEffect

\* the save effect of the first render, which saw isInitialized false and the
\* initial maps, part_002:1441-1452
LoadFirstRenderSave ==
    /\ ~isInitialized
    /\ SaveEffect
    /\ UNCHANGED <<StoreVars, UiVars, UpdateVars, nextId, sheet, turns>>

NextLoad ==
    \/ LoadFirstRenderSave \/ LoadEffect
    \/ LoadSelectEvent \/ LoadToggleMode \/ LoadDeleteEvent

SpecLoad == InitLoad /\ [][NextLoad]_vars

\* the stored value of a key: the parsed blob, the empty map if there is none
StoredValue(key) == IF storage[key].kind = "json" THEN storage[key].value ELSE EmptyMap

\* C30: in every state before startup, the load effect and the first save
\* leave either all four in-memory maps equal to their stored values or all
\* four as they were before, also when a stored blob cannot be parsed, and
\* the first save replaces no non-empty stored map by an empty one while
\* another map was loaded.
LoadIsAllOrNothing ==
    ~isInitialized =>
       ENABLED (/\ LoadEffect
                /\ \/ /\ \A key \in StorageKeys : storage[key].kind # "unparsable"
                      /\ eventLists' = StoredValue("eventShoppingLists")
                      /\ eventMetadata' = StoredValue("eventMetadata")
                      /\ executeModeItems' = StoredValue("executeModeItems")
                      /\ dayModes' = StoredValue("dayModes")
                   \/ UNCHANGED <<eventLists, eventMetadata, executeModeItems, dayModes>>
                /\ \/ UNCHANGED <<eventLists, eventMetadata, executeModeItems, dayModes>>
                   \/ \A key \in StorageKeys :
                         StoredValue(key) # EmptyMap => BlobValue(key)' # EmptyMap)

\* with no unparsable blob in the store, the load effect and the first save
\* leave all four in-memory maps and all four stored maps equal to the stored
\* values
LoadOfParsableSnapshot ==
    (~isInitialized /\ \A key \in StorageKeys : storage[key].kind # "unparsable") =>
       ENABLED (/\ LoadEffect
                /\ eventLists' = StoredValue("eventShoppingLists")
                /\ eventMetadata' = StoredValue("eventMetadata")
                /\ executeModeItems' = StoredValue("executeModeItems")
                /\ dayModes' = StoredValue("dayModes")
                /\ \A key \in StorageKeys : BlobValue(key)' = StoredValue(key))

\* the collections were loaded and the store holds no active lists and no
\* mode flags any more
PartialLoadReached ==
    /\ isInitialized
    /\ eventLists = StoredSnapshot("eventShoppingLists")
    /\ eventMetadata = EmptyMap /\ executeModeItems = EmptyMap /\ dayModes = EmptyMap
    /\ BlobValue("executeModeItems") = EmptyMap /\ BlobValue("dayModes") = EmptyMap

----------------------------------------------------------------------------
(* Validation of the single-item form *)

\* what the single-item form can hold when it is submitted, trimmed: the
\* text inputs may be blank, the day is chosen from a select
FormFields ==
    {[Row("d1", number, title) EXCEPT !.circle = circle, !.block = block] :
        circle \in {"", "X"}, block \in {"", "A"}, number \in {"", "1"}, title \in {"", "T"}}

\* one of the fields every item of the data model must carry is blank
MissingRequired(fields) ==
    fields.circle = "" \/ fields.eventDate = "" \/ fields.block = "" \/ fields.number = ""

\* C31: in every state, a submission of the single-item form with a missing
\* required field, as an edit or as an addition, is rejected: no step of the
\* submit handler is possible and the state stays as it is.
SubmissionWithMissingFieldRejected ==
    (activeTab = "import" /\ activeEventName # Null) =>
       \A fields \in FormFields :
          MissingRequired(fields) =>
             /\ ~ENABLED SubmitSingleAdd(fields)
             /\ ~ENABLED SubmitEdit(fields)

\* a submission with neither circle nor title is rejected: the handler
\* returns before it calls a setter
BlankSubmissionRejected ==
    (activeTab = "import" /\ activeEventName # Null) =>
       \A fields \in FormFields :
          (fields.circle = "" /\ fields.title = "") =>
             /\ ~ENABLED SubmitSingleAdd(fields)
             /\ ~ENABLED SubmitEdit(fields)

----------------------------------------------------------------------------
(* CSV: the export of a collection and the row parser of the update.  A text
   is a sequence of characters; the fields of the items of this
   specification are texts. *)

Comma == ","
Quote == "\""
Newline == "\n"

CsvChars == {"a", Comma, Quote, Newline}

CsvCells == UNION {[1..k -> CsvChars] : k \in 0..MaxCell}

\* stringData.replace(/"/g, '""')
RECURSIVE ReplaceQuotes(_)
ReplaceQuotes(stringData) ==
    IF Len(stringData) = 0 THEN <<>>
    ELSE (IF Head(stringData) = Quote THEN <<Quote, Quote>> ELSE <<Head(stringData)>>)
            \o ReplaceQuotes(Tail(stringData))

\* part_002:1978-1984
EscapeCsvCell(stringData) ==
    IF \E i \in 1..Len(stringData) : stringData[i] \in {Comma, Quote, Newline}
    THEN <<Quote>> \o ReplaceQuotes(stringData) \o <<Quote>>
    ELSE stringData

\* Array.prototype.join
RECURSIVE Join(_, _)
Join(parts, separator) ==
    IF Len(parts) = 0 THEN <<>>
    ELSE IF Len(parts) = 1 THEN parts[1]
    ELSE parts[1] \o separator \o Join(Tail(parts), separator)

\* the cells of one item, part_002:1990-1999; price and status label are
\* texts of ordinary characters
CsvRow(item) ==
    <<item.circle, item.eventDate, item.block, item.number, item.title,
      <<"0">>, <<"a">>, item.remarks>>

CsvHeaders == [i \in 1..8 |-> <<"a">>]

\* part_002:1986-2003
CsvString(itemsToExport) ==
    Join(<<Join(CsvHeaders, <<Comma>>)>>
            \o [i \in 1..Len(itemsToExport) |->
                   Join([k \in 1..8 |-> EscapeCsvCell(CsvRow(itemsToExport[i])[k])],
                        <<Comma>>)],
         <<Newline>>)

\* text.split('\n')
RECURSIVE SplitLines(_, _, _)
SplitLines(text, i, line) ==
    IF i > Len(text) THEN <<line>>
    ELSE IF text[i] = Newline THEN <<line>> \o SplitLines(text, i + 1, <<>>)
    ELSE SplitLines(text, i + 1, Append(line, text[i]))

\* line.trim() !== ''
NotBlank(line) == \E i \in 1..Len(line) : line[i] \notin {Newline, " "}

\* the character loop of the row parser, part_002:2046-2067
RECURSIVE ParseCells(_, _, _, _, _)
ParseCells(line, j, cells, currentCell, insideQuotes) ==
    IF j > Len(line) THEN Append(cells, currentCell)
    ELSE IF line[j] = Quote
    THEN IF insideQuotes /\ j + 1 <= Len(line) /\ line[j + 1] = Quote
         THEN ParseCells(line, j + 2, cells, Append(currentCell, Quote), insideQuotes)
         ELSE ParseCells(line, j + 1, cells, currentCell, ~insideQuotes)
    ELSE IF line[j] = Comma /\ ~insideQuotes
    THEN ParseCells(line, j + 1, Append(cells, currentCell), <<>>, insideQuotes)
    ELSE ParseCells(line, j + 1, cells, Append(currentCell, line[j]), insideQuotes)

\* the cells of every line after the first, part_002:2040-2067
ParsedRows(text) ==
    LET lines == SelectSeq(SplitLines(text, 1, <<>>), NotBlank)
    IN  [i \in 1..(Len(lines) - 1) |-> ParseCells(lines[i + 1], 1, <<>>, <<>>, FALSE)]

CsvItem(id, circle, remarks) ==
    [id |-> id, circle |-> circle, eventDate |-> <<"a">>, block |-> <<"a">>,
     number |-> <<"a">>, title |-> <<>>, price |-> 0, purchaseStatus |-> "None",
     remarks |-> remarks]

NoSheet == [kind |-> "none", value |-> <<>>]

\* a collection of one or two items; circle and remarks of the first item
\* are any texts
InitCsv ==
    /\ \E circle, remarks \in CsvCells, n \in 1..2 :
          eventLists = [e \in {"e1"} |->
                           SubSeq(<<CsvItem(StoredId(1), circle, remarks),
                                    CsvItem(StoredId(2), <<"a">>, <<>>)>>, 1, n)]
    /\ eventMetadata = [e \in {"e1"} |-> [spreadsheetUrl |-> "sheet"]]
    /\ executeModeItems = [e \in {"e1"} |-> [day1 |-> <<>>, day2 |-> <<>>]]
    /\ dayModes = [e \in {"e1"} |-> [day1 |-> "edit", day2 |-> "edit"]]
    /\ activeEventName = Null
    /\ activeTab = "eventList"
    /\ blockSortDirection = Null
    /\ itemToEdit = None
    /\ itemToDelete = None
    /\ selectedItemIds = <<>>
    /\ updateData = None
    /\ updateEventName = Null
    /\ showUpdateConfirmation = FALSE
    /\ showUrlUpdateDialog = FALSE
    /\ pendingUpdateEventName = Null
    /\ fetches = <<>>
    /\ nextId = 0
    /\ sheet = NoSheet
    /\ isInitialized = TRUE
    /\ storage = Saved
    /\ turns = 0

\* handleExportEvent, part_002:1962-2013: the downloaded file becomes the sheet
CsvExport ==
    /\ sheet.kind = "none"
    /\ \E eventName \in DOMAIN eventLists :
          /\ Len(eventLists[eventName]) > 0
          /\ sheet' = [kind |-> "text", value |-> CsvString(eventLists[eventName])]
    /\ UNCHANGED <<StoreVars, UiVars, UpdateVars, nextId, turns>>
    /\ SaveEffect

\* the fetched text is parsed, part_002:2040-2067
CsvParse ==
    /\ sheet.kind = "text"
    /\ sheet' = [kind |-> "rows", value |-> ParsedRows(sheet.value)]
    /\ UNCHANGED <<StoreVars, UiVars, UpdateVars, nextId, turns>>
    /\ SaveEffect

NextCsv == CsvExport \/ CsvParse

SpecCsv == InitCsv /\ [][NextCsv]_vars

ExportedCells == [i \in 1..Len(eventLists["e1"]) |-> CsvRow(eventLists["e1"][i])]

\* C32: in every state in which the exported text of a collection was
\* parsed, the parsed rows are the rows of cells of the exported items, one
\* row per item, each cell with the characters of the item's field.
QuotingRoundTrip == sheet.kind = "rows" => sheet.value = ExportedCells

\* the same for collections whose fields hold no newline
QuotingRoundTripOnOneLine ==
    (/\ sheet.kind = "rows"
     /\ \A i \in 1..Len(ExportedCells) : \A k \in 1..8 :
           \A j \in 1..Len(ExportedCells[i][k]) : ExportedCells[i][k][j] # Newline)
    => sheet.value = ExportedCells

----------------------------------------------------------------------------
(* The two projections of the active list *)

\* C33: in every state in which an event is shown on a day tab in execute
\* mode, the items visible with no status filter are the items of the active
\* column of that day, the same items in the same order.
ExecuteModeShowsActiveColumn ==
    (activeEventName # Null /\ activeTab \in DayKeys /\ CurrentMode = "execute") =>
       VisibleItems("Manual") = ExecuteColumnItems

\* the same items, in whatever order, as long as every active id belongs to
\* an item of the shown day
ExecuteModeShowsActiveItems ==
    (/\ activeEventName # Null /\ activeTab \in DayKeys /\ CurrentMode = "execute"
     /\ \A i \in 1..Len(ExecuteColumnItems) :
           IncludesDay(ExecuteColumnItems[i].eventDate, CurrentDay(activeTab)))
    => /\ Range(VisibleItems("Manual")) = Range(ExecuteColumnItems)
       /\ Len(VisibleItems("Manual")) = Len(ExecuteColumnItems)

\* C34: in every state, every id of the day-d active list of an event that
\* is the id of an item of the event's collection is the id of an item whose
\* eventDate is day d.
ActiveListsDayConsistent ==
    \A event \in DOMAIN executeModeItems \cap DOMAIN eventLists :
       \A day \in DayKeys :
          \A i \in 1..Len(eventLists[event]) :
             eventLists[event][i].id \in Range(executeModeItems[event][day])
             => IncludesDay(eventLists[event][i].eventDate, day)

----------------------------------------------------------------------------
(* Overlapping updates: several handleUpdateEvent calls are suspended in
   their fetch when the behaviour starts *)

MaxOverlap == 2     \* handleUpdateEvent calls suspended at the start

\* the stored collection of an event: one item, with an id of its own
OverlapCollection(event) ==
    IF event = "e1" THEN <<NewItem(StoredId(1), Row("d1", "1", "T"))>>
    ELSE <<NewItem(StoredId(2), Row("d1", "10", "T"))>>

InitOverlap ==
    /\ eventLists = [e \in StoreEvents |-> OverlapCollection(e)]
    /\ executeModeItems =
          [e \in StoreEvents |-> [day1 |-> Ids(OverlapCollection(e)), day2 |-> <<>>]]
    /\ eventMetadata = [e \in StoreEvents |-> [spreadsheetUrl |-> "sheet"]]
    /\ dayModes = [e \in StoreEvents |-> [day1 |-> "edit", day2 |-> "edit"]]
    /\ activeEventName = Null
    /\ activeTab = "eventList"
    /\ blockSortDirection = Null
    /\ itemToEdit = None
    /\ itemToDelete = None
    /\ selectedItemIds = <<>>
    /\ updateData = None
    /\ updateEventName = Null
    /\ showUpdateConfirmation = FALSE
    /\ showUrlUpdateDialog = FALSE
    /\ pendingUpdateEventName = Null
    \* the update was requested for these events, one after the other
    /\ \E events \in SeqsUpTo(StoreEvents, MaxOverlap) :
          fetches = [i \in 1..Len(events) |-> Closure(events[i])]
    /\ nextId = 0
    /\ sheet = <<>>
    /\ isInitialized = TRUE
    /\ storage = Saved
    /\ turns = 0

OverlapResolve ==
    /\ \E i \in 1..Len(fetches) : \E rows \in SeqsUpTo(SheetRows, MaxSheet) :
          UpdateEventResolve(i, rows)
    /\ UNCHANGED turns /\ SaveEffect

OverlapReject ==
    /\ \E i \in 1..Len(fetches) : UpdateEventReject(i)
    /\ UNCHANGED turns /\ SaveEffect

OverlapDismissUrl == showUrlUpdateDialog /\ CancelUrlUpdate /\ UNCHANGED turns /\ SaveEffect

OverlapConfirm ==
    /\ showUpdateConfirmation /\ HandleConfirmUpdate
    /\ UNCHANGED turns /\ SaveEffect

OverlapCancel ==
    /\ showUpdateConfirmation /\ IsSome(updateData)
    /\ CancelUpdate
    /\ UNCHANGED turns /\ SaveEffect

\* another event is opened from the event list while fetches are suspended
OverlapSelectEvent ==
    /\ ~ModalOpen
    /\ \E e \in DOMAIN eventLists : HandleSelectEvent(e)
    /\ UNCHANGED turns /\ SaveEffect

\* the delete button of an item of the shown event, while fetches are suspended
OverlapClickDelete ==
    /\ ListsShown
    /\ \E c \in Columns : \E item \in ShownIn(c) : HandleDeleteRequest(item)
    /\ UNCHANGED turns /\ SaveEffect

OverlapConfirmDelete == HandleConfirmDelete /\ UNCHANGED turns /\ SaveEffect

NextOverlap ==
    \/ OverlapResolve \/ OverlapReject \/ OverlapDismissUrl
    \/ OverlapConfirm \/ OverlapCancel \/ OverlapSelectEvent
    \/ OverlapClickDelete \/ OverlapConfirmDelete

SpecOverlap == InitOverlap /\ [][NextOverlap]_vars

\* C35: with fetches of several events suspended and whatever event is
\* shown, in every state a change-set is pending exactly when an event name
\* is pending, and the items the pending change-set deletes or updates are
\* items of the stored collection of the pending event; and every step of
\* handleConfirmUpdate leaves the collection and the active lists of every
\* other event, and the metadata and the mode flags of every event, as they
\* were.
ConfirmTargetsReconciledEvent ==
    /\ [](/\ IsSome(updateData) <=> updateEventName # Null
          /\ IsSome(updateData) <=> showUpdateConfirmation
          /\ IsSome(updateData) =>
                /\ updateEventName \in StoreEvents
                /\ IdSet(Get(updateData).itemsToDelete)
                      \cup IdSet(Get(updateData).itemsToUpdate)
                      \subseteq IdSet(OverlapCollection(updateEventName)))
    /\ [][\/ UNCHANGED <<eventLists, executeModeItems, eventMetadata, dayModes>>
          \/ ~HandleConfirmUpdate
          \/ /\ OthersUnchanged(eventLists, eventLists', updateEventName)
             /\ OthersUnchanged(executeModeItems, executeModeItems', updateEventName)
             /\ UNCHANGED <<eventMetadata, dayModes>>]_vars

\* the update of the first event was confirmed and changed its collection,
\* the update of the second event, suspended all the while, is pending, and
\* the first event is the one shown
ConfirmTargetsWitness ==
    /\ eventLists["e1"] # OverlapCollection("e1")
    /\ eventLists["e2"] = OverlapCollection("e2")
    /\ updateEventName = "e2" /\ IsSome(updateData)
    /\ Len(Get(updateData).itemsToDelete) = 1
    /\ activeEventName = "e1"

PerEventMapsAligned ==
    /\ DOMAIN eventLists = DOMAIN executeModeItems
    /\ DOMAIN eventLists = DOMAIN dayModes

\* what holds instead: an event with an active-list partition or with mode
\* flags has a collection, and the partitions and the mode flags are kept
\* for the same events
PartitionsAndModesAligned ==
    /\ DOMAIN executeModeItems = DOMAIN dayModes
    /\ DOMAIN executeModeItems \subseteq DOMAIN eventLists

\* C38: whenever a change-set is pending, no id is both among its items to
\* delete and among its items to update, and every id among them is the id
\* of an item of the collection the diff was computed from.
ChangeSetSetsDoNotOverlap ==
    IsSome(updateData) =>
        /\ IdSet(ReconData.itemsToDelete) \cap IdSet(ReconData.itemsToUpdate) = {}
        /\ IdSet(ReconData.itemsToDelete) \cup IdSet(ReconData.itemsToUpdate)
              \subseteq IdSet(ReconCur)

\* a pending change-set that deletes one item of the collection and updates
\* another
ChangeSetDeletesAndUpdates ==
    /\ IsSome(updateData)
    /\ Len(ReconData.itemsToDelete) > 0
    /\ Len(ReconData.itemsToUpdate) > 0

----------------------------------------------------------------------------
(* The sorts on a stored collection with items of both days
   (part_002:1709-1793, 1855-1960) *)

MaxSort == 3        \* items of the collection that is sorted

SortEvent == "e1"

SortRows ==
    {[Row("d1", "2", "T") EXCEPT !.block = "B"], Row("d1", "1", "T"), Row("d2", "1", "T")}

SortCollections ==
    UNION {{[i \in 1..n |-> NewItem(StoredId(i), rows[i])] : rows \in [1..n -> SortRows]} :
           n \in 1..MaxSort}

\* the ids of a set in the order of the collection, or in the opposite order
SortOrders(items, idSet) ==
    LET inOrder == SelectSeq(Ids(items), LAMBDA id : id \in idSet)
    IN  {inOrder, [i \in 1..Len(inOrder) |-> inOrder[Len(inOrder) + 1 - i]]}

\* day 1 of the event is shown; the active list of day 1 holds day-1 items,
\* the selection holds items the shown mode displays
InitSort ==
    /\ \E items \in SortCollections, mode \in {"edit", "execute"} :
          /\ eventLists = [e \in {SortEvent} |-> items]
          /\ dayModes = [e \in {SortEvent} |-> [day1 |-> mode, day2 |-> "edit"]]
          /\ \E activeIds \in SUBSET IdSet(DayItemsOf(items, "day1")) :
                /\ \E active \in SortOrders(items, activeIds) :
                      executeModeItems =
                          [e \in {SortEvent} |-> [day1 |-> active, day2 |-> <<>>]]
                /\ \E selected \in SUBSET (IF mode = "edit"
                                           THEN IdSet(DayItemsOf(items, "day1"))
                                           ELSE activeIds) :
                      selectedItemIds = SelectSeq(Ids(items), LAMBDA id : id \in selected)
    /\ eventMetadata = [e \in {SortEvent} |-> [spreadsheetUrl |-> ""]]
    /\ activeEventName = SortEvent
    /\ activeTab = "day1"
    /\ blockSortDirection = Null
    /\ itemToEdit = None
    /\ itemToDelete = None
    /\ updateData = None
    /\ updateEventName = Null
    /\ showUpdateConfirmation = FALSE
    /\ showUrlUpdateDialog = FALSE
    /\ pendingUpdateEventName = Null
    /\ fetches = <<>>
    /\ nextId = 0
    /\ sheet = <<>>
    /\ isInitialized = TRUE
    /\ storage = Saved
    /\ turns = 0

\* the block sort button of execute mode, part_002:2353
SortBlock ==
    /\ ListsShown /\ CurrentMode = "execute"
    /\ HandleBlockSortToggle
    /\ UNCHANGED turns /\ SaveEffect

\* the block sort button of the candidate column, part_002:2366
SortBlockCandidate ==
    /\ ListsShown /\ CurrentMode = "edit"
    /\ HandleBlockSortToggleCandidate
    /\ UNCHANGED turns /\ SaveEffect

\* the bulk sort control of the selection, part_002:2384
SortBulk ==
    /\ ListsShown /\ Len(selectedItemIds) > 0
    /\ \E direction \in Directions : HandleBulkSort(direction)
    /\ UNCHANGED turns /\ SaveEffect

\* a tap on a shown item card
SortSelect ==
    /\ ListsShown
    /\ \E c \in Columns : \E item \in ShownIn(c) : HandleSelectItem(item.id)
    /\ UNCHANGED turns /\ SaveEffect

NextSort == SortBlock \/ SortBlockCandidate \/ SortBulk \/ SortSelect

SpecSort == InitSort /\ [][NextSort]_vars

SortItems == eventLists[SortEvent]
SortItemsAfter == eventLists'[SortEvent]

SamePermutation(before, after) ==
    /\ Len(before) = Len(after)
    /\ \A x \in Range(before) \cup Range(after) : Count(after, x) = Count(before, x)

\* the collection and both active lists keep their ids, each as often as before
SortPermutes ==
    /\ SamePermutation(Ids(SortItems), Ids(SortItemsAfter))
    /\ \A day \in {"day1", "day2"} :
          SamePermutation(executeModeItems[SortEvent][day], executeModeItems'[SortEvent][day])

\* every item that is not of the shown day stands where it stood
OtherDayItemsStay ==
    \A i \in 1..Len(SortItems) :
        ~IncludesDay(SortItems[i].eventDate, CurrentDay(activeTab))
            => i <= Len(SortItemsAfter) /\ SortItemsAfter[i] = SortItems[i]

\* every item of the active column of the shown day stands where it stood
ActiveColumnItemsStay ==
    \A i \in 1..Len(SortItems) :
        SortItems[i].id \in Range(executeModeItems[SortEvent][CurrentDay(activeTab)])
            => i <= Len(SortItemsAfter) /\ SortItemsAfter[i] = SortItems[i]

\* handleBulkSort in edit mode with a selection in the candidate column only
BulkSortOfCandidates ==
    /\ CurrentMode = "edit"
    /\ Range(selectedItemIds) \cap Range(executeModeItems[SortEvent][CurrentDay(activeTab)]) = {}
    /\ \E direction \in Directions : HandleBulkSort(direction)

\* C39: every step of handleBlockSortToggle, handleBlockSortToggleCandidate
\* and handleBulkSort keeps the multiset of ids of the collection and of
\* each active list and leaves every item of the other day at its index of
\* the collection; the candidate-only sorts also leave every active-column
\* item at its index.
SortsOnlyPermute ==
    [][/\ (\/ HandleBlockSortToggle \/ HandleBlockSortToggleCandidate
           \/ \E direction \in Directions : HandleBulkSort(direction))
          => SortPermutes /\ OtherDayItemsStay
       /\ (HandleBlockSortToggleCandidate \/ BulkSortOfCandidates)
          => ActiveColumnItemsStay]_vars

\* what holds instead: the same, with the fixed index of other-day items
\* claimed for every sort but the bulk sort of execute mode
SortsPermuteAndEditSortsKeepOtherDay ==
    [][/\ (\/ HandleBlockSortToggle \/ HandleBlockSortToggleCandidate
           \/ \E direction \in Directions : HandleBulkSort(direction))
          => SortPermutes
       /\ (\/ HandleBlockSortToggle \/ HandleBlockSortToggleCandidate
           \/ CurrentMode = "edit" /\ \E direction \in Directions : HandleBulkSort(direction))
          => OtherDayItemsStay
       /\ (HandleBlockSortToggleCandidate \/ BulkSortOfCandidates)
          => ActiveColumnItemsStay]_vars

\* a step that leaves the persisted snapshot alone while the load has not
\* finished
NoWriteBeforeLoad == isInitialized' \/ UNCHANGED storage

\* a step that writes the snapshot writes all four keys from the in-memory
\* maps of the state it ends in
SaveWritesAllFour ==
    UNCHANGED storage \/ \A key \in StorageKeys : storage'[key].kind = "current"

\* a stored snapshot of a key that is not empty is not replaced by the empty
\* map the key starts with
InitialMapKeepsSnapshot(key) ==
    (~isInitialized /\ StoredValue(key) # EmptyMap) => BlobValue(key)' = StoredValue(key)

\* C40: no step writes the persisted snapshot before the load has finished,
\* every step that writes it writes all four maps of the state it ends in,
\* and no step from the state before the load replaces a stored, non-empty
\* snapshot of a key by the initial empty map.
NoSaveBeforeLoad ==
    [][/\ NoWriteBeforeLoad
       /\ SaveWritesAllFour
       /\ \A key \in StorageKeys : InitialMapKeepsSnapshot(key)]_vars

\* what holds instead: the same, with the stored snapshot kept when no
\* stored blob is unparsable
NoSaveBeforeLoadOfParsableSnapshot ==
    [][/\ NoWriteBeforeLoad
       /\ SaveWritesAllFour
       /\ (\A key \in StorageKeys : storage[key].kind # "unparsable")
             => \A key \in StorageKeys : InitialMapKeepsSnapshot(key)]_vars

====
